---- MODULE Spec2Model ----
(***************************************************************************)
(* Model of src/main.py: the generic ReviewCrawler (retrying request       *)
(* executor, cursor pagination, date filter, JSON dump) and the            *)
(* SteamReviewCrawler adapter (normalization with deduplication and the    *)
(* 5000 cap, sorting by (date, id)).                                       *)
(*                                                                         *)
(* Representation of Python values:                                        *)
(*   - a JSON scalar that is a number or a numeric string is               *)
(*     [t |-> "int" | "str" | "float", n |-> Int]; for "float" n counts    *)
(*     tenths; a numeric string is represented by the number it spells;    *)
(*   - a cursor is a string; None is the string NoneValue, a response      *)
(*     without the "cursor" key carries NoKey;                             *)
(*   - a UUID string is represented by the number its first seven          *)
(*     hexadecimal digits spell, which orders the strings of the model as  *)
(*     Python orders them; a "YYYY-MM-DD" string by its local day number.  *)
(***************************************************************************)
EXTENDS Integers, Sequences, FiniteSets, TLC

VARIABLES
    pc,            \* position of the program: see PcValues
    caller,        \* "none" | "steam" (SteamReviewCrawler.__init__ and the harvest it
                   \* leaves) | "generic" (a ReviewCrawler used directly) | "steam_direct"
                   \* (a constructed SteamReviewCrawler whose follow_cursor or
                   \* filter_reviews was called directly)
    data,          \* self.data
    cursor,        \* follow_cursor's local variable cursor
    url_encoded,   \* value under the "cursor" key of the url_encoded dict, NoKey when the key is absent
    completion,    \* completion_condition: NoCompletion, or K for lambda self: len(self.data) >= K
    attempts,      \* transport calls made by the current __make_request call
    failures,      \* how many of them raised
    requests,      \* number of __make_request calls made by the current follow_cursor call
    response,      \* the last value returned by __make_request, NoResponse before the first
    error,         \* the exception the latest call raised, "none" when it raised none
    franchise,     \* self.__franchise
    gameName,      \* self.__gameName
    start_date,    \* __init__'s start_date argument
    end_date,      \* __init__'s end_date argument
    tz,            \* the process's UTC offset in seconds, as time.localtime / time.mktime use it
    old_data,      \* the list __init__ handed to __process_data (history)
    file,          \* the contents written by dump_json_out, NoFile before any dump
    explicit,      \* TRUE when the current follow_cursor call was given its own url_encoded dict
    default_url_encoded
                   \* value under the "cursor" key of the dict that is follow_cursor's
                   \* default for url_encoded (line 29), NoKey when the key is absent

vars == <<pc, caller, data, cursor, url_encoded, completion, attempts, failures, requests,
          response, error, franchise, gameName, start_date, end_date, tz, old_data, file,
          explicit, default_url_encoded>>

----------------------------------------------------------------------------
(* Program constants *)

NUMBER_OF_RETRIES == 5

REVIEW_CAP == 5000

SecondsPerDay == 86400

(* Bounds of the model *)

MaxRequests == 2

MaxPageLen == 2

MaxData == 3

----------------------------------------------------------------------------
(* Python values *)

NoneValue == "<None>"

NoKey == "<no key>"

NoCompletion == -1

NoResponse == [kind |-> "none"]

NoFile == [written |-> FALSE, content |-> <<>>]

JInt(n) == [t |-> "int", n |-> n]

JStr(n) == [t |-> "str", n |-> n]

JFloat(tenths) == [t |-> "float", n |-> tenths]

\* bool(cursor) as `if cursor:` evaluates it
Truthy(c) == c \notin {NoneValue, ""}

\* str(v) for an int or a numeric string: the digits
StrOf(v) == v.n

\* int(v): identity on ints, parse on numeric strings, truncation toward zero on floats
IntOf(v) ==
    IF v.t = "float"
    THEN IF v.n >= 0 THEN v.n \div 10 ELSE -((-v.n) \div 10)
    ELSE v.n

\* Uuid5Digits[n]: the first seven hexadecimal digits of
\* str(uuid.uuid5(uuid.NAMESPACE_DNS, str(n))), read as a number, for n in
\* 1..6000, the natural keys and steam ids of the model.  They differ for any
\* two of these names, so they order the strings as Python orders them.
Uuid5Digits ==
    << 184850014, 78735067, 159458301, 116233564, 210145754, 174870472, 178230969, 244959916, 239960243, 1416556,
       134150287, 86320342, 152840015, 16719398, 37324354, 202748812, 230064134, 212711317, 55656453, 107893915,
       43174121, 14922288, 80021350, 169581411, 203884712, 242377625, 216116781, 53901240, 248655962, 100986247,
       150476605, 57587924, 55130988, 255934113, 256282002, 142773405, 262977377, 158285280, 166440120, 109118575,
       202625205, 130290101, 260201135, 254495918, 56178773, 56857155, 132531529, 21874344, 142860457, 72031570,
       256019131, 108433242, 210718418, 103642894, 173690594, 159328724, 231336015, 11645212, 4602471, 8649856,
       71230096, 25964345, 9175683, 21530788, 263250936, 37089756, 210203089, 35813062, 169422770, 139527631,
       224531612, 233868566, 207233317, 121045528, 102011390, 233721331, 97205930, 142246587, 56877563, 17665662,
       199959921, 108499571, 11334313, 171672596, 1863824, 182665878, 241671777, 26970001, 240893019, 70351841,
       181207161, 46572276, 63599858, 99541126, 2701806, 256745407, 189805368, 57175970, 115559036, 63327182,
       234007892, 121290252, 125634373, 254595583, 160294769, 232642915, 228324482, 249812259, 64773956, 6361592,
       229270521, 54690311, 166127619, 107376438, 53353367, 102344115, 123956142, 119326172, 23357807, 101229511,
       155473560, 74212465, 58200916, 133383447, 93425957, 118070302, 23009119, 113645316, 252973342, 109186409,
       118556039, 114387896, 57948773, 161353004, 136061294, 175492266, 120842492, 74906588, 16526713, 227247614,
       183826855, 260326608, 143818844, 85665760, 91297475, 126497191, 8399632, 195279216, 145876709, 19710591,
       105818121, 251387278, 150869516, 146961159, 2513509, 209229465, 255382719, 61553205, 155872320, 188332601,
       131128388, 67966658, 78324801, 232899077, 231938878, 163811746, 142401482, 41368579, 150989877, 116232126,
       140624238, 205670863, 193183695, 242335423, 158541176, 162351601, 117614659, 46989790, 70207741, 67698383,
       79237413, 243668818, 155242457, 235049086, 50743945, 255782028, 25503179, 145048134, 180653065, 137410026,
       79403681, 62010697, 12659510, 177214470, 92168335, 28643409, 257088301, 149790211, 239323105, 115782198,
       228813627, 187001924, 112371711, 194023044, 12487150, 32270577, 169117338, 154300781, 142785115, 153356829,
       67718497, 173676745, 118728379, 247834891, 78292967, 109449274, 163053942, 137399580, 141710952, 219449106,
       234043954, 261037282, 183217848, 4156456, 249917808, 4671456, 10704683, 252151620, 111080411, 56001577,
       206160808, 12150881, 233736488, 248128488, 41233009, 229733323, 21472881, 159579804, 29863700, 55776477,
       17987739, 244476147, 213188861, 195836, 70453135, 950508, 136485237, 101979594, 108415142, 152929736,
       181694098, 133640767, 4340267, 186162183, 107159017, 162189250, 222576277, 153277661, 98099382, 13828822,
       90503430, 71567163, 20172304, 108699467, 262423523, 178280504, 202802205, 13238007, 154941866, 256269145,
       143217951, 65967131, 49318073, 26120601, 72142440, 163215358, 97855244, 44368049, 158720224, 2316390,
       114315383, 265231909, 21149342, 248575538, 58699538, 263475744, 230909006, 179268775, 71073448, 35178301,
       46753082, 35350923, 165183988, 114982444, 12315431, 121115221, 27657396, 202551261, 18616086, 151233419,
       44196506, 95711843, 224788998, 184029068, 3691996, 121113462, 241364064, 109314462, 60563866, 143398369,
       92988935, 153364335, 241582347, 260884274, 191889045, 22953646, 90355984, 171633546, 119434051, 106728010,
       91661985, 161250579, 100906564, 86019612, 50769388, 10425423, 8501484, 264386388, 225659229, 147440865,
       64254403, 45944311, 26354832, 56856301, 214137105, 14547131, 253780403, 136982132, 4158008, 92850876,
       13265874, 176327489, 65186712, 53507988, 189357843, 99455824, 22500132, 187796860, 52901139, 169401655,
       33080531, 67707831, 255038667, 85472865, 140279075, 86066930, 12839614, 117772669, 96120129, 264593258,
       263134299, 235416357, 151112473, 153779951, 250983589, 256562244, 122430665, 100803044, 186489104, 465310,
       8889792, 185877226, 244332277, 117077721, 86088879, 133768633, 236314122, 165411407, 44113511, 260073363,
       116814206, 134272536, 207210930, 220438862, 7688813, 82641273, 45886977, 223557296, 78753377, 93354090,
       127855229, 129250700, 85856396, 186833211, 181089947, 154472946, 143469150, 88068732, 81110846, 110163003,
       89282064, 244822593, 186004848, 254343451, 146085787, 164205485, 35257059, 15821732, 194422125, 188645031,
       206562826, 242411073, 190722873, 28153960, 8010547, 252758540, 78285404, 214034097, 125708262, 141780617,
       209203087, 196913407, 253148638, 260048636, 106534730, 126823074, 173042256, 221415995, 91811648, 164420531,
       128973920, 267145272, 116718184, 258157218, 151847472, 208303811, 127898469, 231499028, 222650305, 31587508,
       230400278, 81386968, 151033233, 110900411, 84878200, 214050565, 255787852, 42250847, 32573373, 215401697,
       96097598, 117228193, 33909175, 239024487, 104060974, 227667216, 67054600, 59224996, 153182863, 209408307,
       152608906, 79404773, 206860505, 155865552, 189560194, 21152471, 238606080, 241090098, 209886351, 92605350,
       205156108, 113282212, 123323986, 244851138, 218872204, 201071309, 176565806, 222560092, 77891528, 194304006,
       267552767, 38801768, 120754580, 67783226, 10966879, 217902057, 263316409, 211008558, 171560832, 32656106,
       24982472, 96810737, 60232068, 134060790, 110380872, 242640288, 3348600, 113136681, 57661716, 55117082,
       11462839, 188270146, 69802235, 198988225, 24591584, 256825764, 62682051, 156760636, 137594317, 11132684,
       171785529, 98941882, 81464945, 136206669, 236642199, 206315773, 85431821, 73093711, 81873458, 130786737,
       145423163, 18803357, 145453639, 19428161, 79326288, 248005234, 168525673, 1449424, 191672688, 217980858,
       211095919, 195999859, 186257832, 166549106, 48002863, 158165080, 95755878, 156281156, 201858556, 94883464,
       55430358, 154641345, 136770922, 173342216, 74535724, 246831488, 98354194, 73421307, 70175795, 197608156,
       123005094, 233418588, 255809553, 23296242, 65417282, 156782800, 93759373, 164996654, 213146179, 52325629,
       50133946, 248657931, 234053501, 65306149, 58066572, 18920048, 47127, 215677479, 20002221, 215805396,
       176391932, 222502391, 200248774, 170096528, 240370347, 123624364, 154280861, 40732381, 165418938, 23443280,
       243761328, 104862347, 56715491, 113568008, 132227933, 39619599, 86311636, 159897487, 242914120, 117292010,
       24441059, 161075332, 5008608, 206641862, 115131183, 225677933, 206521330, 68004687, 36610221, 188919896,
       257066512, 214908172, 46981974, 65182099, 90042397, 257514628, 82709517, 179337641, 143354203, 185435980,
       219823689, 245925102, 106247261, 47652485, 189170915, 236717450, 214103576, 102525025, 211499732, 135333300,
       221923780, 247982701, 142704688, 252364438, 156797864, 21631249, 208253536, 81318007, 28064176, 193046458,
       133895761, 166799705, 8534804, 149092700, 42602159, 163359415, 220331460, 173260550, 143745082, 66373677,
       127333410, 190180508, 222288781, 226135227, 188162176, 241996787, 222069494, 64999768, 130397457, 223646513,
       62293552, 219728252, 6405333, 62958894, 46537613, 190636675, 165094750, 242550918, 33463849, 86254642,
       34080201, 182722094, 107253849, 230494133, 123322375, 252593969, 73722602, 210622683, 161609234, 78139075,
       29061033, 233993944, 190813199, 53645990, 11306215, 152194563, 78078163, 21189925, 75591711, 124582001,
       262943391, 7975965, 262048317, 103799980, 59282030, 130979084, 59296832, 46738722, 130685169, 78299478,
       21815266, 104475362, 56900117, 150755234, 50399047, 131171384, 60236224, 125990947, 66325883, 30051007,
       30582863, 125245312, 229760440, 186023105, 260707357, 216761363, 256750578, 65373394, 230373897, 164255242,
       56186982, 113199161, 36122567, 180551294, 119828604, 184514848, 52912825, 27050727, 113115228, 59385108,
       48668940, 81058194, 4073677, 127230047, 147800837, 155619388, 43224512, 131573268, 24545674, 178661175,
       129466847, 142399322, 152763743, 5575925, 2445122, 18749100, 71138870, 74973097, 263859652, 44708919,
       185766926, 72450084, 106922362, 57490407, 27552686, 104084808, 21027008, 104942682, 122031282, 226669967,
       229820452, 138188617, 90110233, 4409707, 222503912, 268377331, 100872782, 99974644, 247391166, 108541133,
       199094339, 103143616, 158269163, 159569826, 254564557, 185912715, 7510285, 103649385, 43175356, 68291844,
       202128294, 193617871, 175051651, 54528936, 149069238, 175738258, 203398268, 32791712, 165226306, 20684801,
       101534790, 106040543, 212628566, 68821976, 193559136, 39466558, 143060486, 30573914, 163238923, 114867346,
       214531144, 77754189, 137691616, 178413752, 234193964, 146583278, 191048098, 238646941, 163470854, 175254479,
       75722553, 249316136, 16600671, 205225805, 3169367, 124573947, 57017021, 144674392, 245903446, 155525208,
       59508943, 1675154, 96054814, 61352796, 29079660, 107011388, 154627773, 193217901, 24243466, 41281629,
       65878888, 217860948, 221799256, 9725289, 268015976, 74819387, 216211214, 36635890, 163803990, 157397546,
       202367890, 243052563, 54905536, 116241388, 81850961, 20639367, 171829852, 3811430, 123475908, 49930269,
       18921273, 11363173, 91929276, 140976503, 46160188, 54504816, 267973342, 189471076, 195808209, 205273233,
       153463798, 222415912, 199471981, 215506945, 161133564, 30458806, 250800931, 139055975, 187115226, 193136798,
       107073562, 49814028, 118775411, 264787512, 152016722, 247123349, 165558603, 41925149, 193338987, 237979578,
       54334869, 88508547, 267174857, 241643404, 146860313, 24256585, 26221786, 62878372, 250822377, 63320819,
       110072226, 54392012, 96518744, 162524338, 209354115, 140880095, 173635373, 79994135, 186898921, 186807893,
       189964186, 55416973, 216067996, 192807706, 65298526, 59919556, 94706285, 225481045, 27385846, 34482002,
       161386107, 132594344, 216149276, 201178709, 221295715, 149011999, 253879769, 154969325, 23567474, 127145051,
       210911814, 254679387, 55897288, 70157791, 163110496, 81384509, 130016646, 265046345, 2852483, 143899897,
       197066118, 195047416, 164180990, 254076530, 26186138, 188939457, 203944034, 179389442, 225907655, 261938344,
       175243871, 135528095, 99445488, 248344864, 147905973, 31029923, 58556781, 221415267, 254730784, 243015743,
       65593781, 103857890, 139677252, 148396888, 84704306, 87987645, 258444084, 79562680, 151530707, 183898457,
       173590471, 107047712, 52788732, 45671682, 225529834, 138484087, 174014734, 11461487, 160540725, 111642181,
       264636167, 100839958, 264413787, 121521963, 193327822, 206938491, 80462857, 152090398, 130848493, 236142788,
       235353817, 109688572, 215270146, 42516668, 139981256, 221278222, 7061004, 160899427, 238530091, 115730502,
       205069744, 115069624, 110437508, 116442900, 123770668, 243467975, 103847185, 197020294, 12598077, 258842450,
       147296819, 132143589, 199577971, 84132072, 13075981, 101942936, 228442787, 213854901, 30855306, 153362658,
       261050801, 56351260, 245927777, 1071263, 239103502, 25771778, 71991706, 4349831, 202760672, 158161186,
       44195129, 214536093, 91027803, 28133716, 253913859, 252410251, 69664877, 30750235, 185499575, 185873791,
       104164859, 123666908, 19324453, 267629438, 97156786, 12404316, 191303407, 168141269, 163201079, 131540481,
       145417380, 100561763, 178769256, 41603985, 78770001, 109294452, 80108131, 68034859, 229011906, 163902185,
       139457159, 111019190, 175322887, 9972278, 234214455, 181318048, 233042701, 238686890, 173528675, 67742426,
       182425939, 184467539, 66251900, 9396905, 107069465, 253798083, 107425681, 264159675, 157953090, 168493981,
       83428554, 121184797, 34028508, 28655246, 69371393, 114561692, 45473143, 4248778, 57966578, 27422520,
       161471253, 13935352, 17588875, 142809233, 244876083, 63347067, 214533235, 83188938, 164884154, 65606,
       169044144, 7854673, 149428513, 266256764, 198023907, 124734161, 244138377, 37391985, 32578498, 204817805,
       99903523, 97192796, 64297569, 32575273, 114386726, 76404427, 137179782, 267665857, 193173707, 213910505,
       179558697, 78738180, 169491780, 28775765, 147185856, 194486032, 228393904, 58609531, 99056153, 72532322,
       183195286, 226006880, 92839920, 70187533, 90215477, 184587344, 193179381, 182432243, 140286496, 164144724,
       119153601, 230114858, 22113074, 208074959, 252528159, 247703194, 157391046, 147093959, 236352972, 213856000,
       203094753, 25879048, 126553997, 8344949, 138626803, 133402973, 43427842, 203438658, 59093681, 147819435,
       185929614, 261114216, 6592888, 94798704, 92410610, 195611434, 34971279, 30171467, 81140754, 239426104,
       174012928, 4237448, 222690375, 19276623, 244090987, 194972965, 55789945, 179642227, 82678251, 224389055,
       216435948, 8688342, 262247852, 21627649, 23759304, 64936670, 163705693, 254613410, 220610759, 19106344,
       211360835, 86901917, 126630788, 138971215, 165044125, 35479151, 267127972, 74607003, 182142367, 107329944,
       93317036, 228117178, 29779245, 162662306, 7597208, 198296094, 220966065, 19432710, 57020287, 70231936,
       43571067, 102907458, 197064870, 201870371, 178973199, 222145273, 127853981, 41391764, 93210859, 132762588,
       238570881, 239908737, 68266754, 127239334, 267724838, 62096523, 11051417, 102716531, 28738050, 43900394,
       228636155, 250552056, 261698985, 242791000, 53444617, 70894844, 120953201, 32151054, 20031293, 189700327,
       10365482, 209806618, 76891690, 161484503, 258777194, 222740606, 259452967, 196558843, 259787792, 154818091,
       41515201, 13299487, 27901916, 266798055, 225687010, 203014485, 121260625, 162159139, 209001132, 4980464,
       215605520, 240572816, 251467761, 22305468, 261593738, 131183959, 49744613, 151399082, 101688699, 185526190,
       85436104, 101292947, 82203423, 83213065, 66348277, 119295994, 182951738, 126193319, 87076776, 17578367,
       120703571, 71835815, 248917277, 212865234, 66683404, 115958154, 122705760, 205360783, 121483415, 131382223,
       171151059, 156116254, 259126932, 8996760, 199716638, 12758948, 155039208, 213063913, 114918251, 157172179,
       258656621, 266780500, 148156317, 201779885, 37478476, 230015870, 38809682, 228310153, 167636983, 36141541,
       96265065, 184844991, 80530821, 200415646, 205543465, 2829350, 142790452, 90525310, 109597520, 254356093,
       158949324, 233030270, 249407204, 188417391, 96711741, 24943684, 23765039, 39461550, 235943123, 248801625,
       243938862, 233580712, 242110983, 16116258, 353412, 248607769, 22963315, 30087402, 49277473, 247269483,
       51865717, 234082675, 52823699, 80353355, 86882185, 18757634, 50696852, 116006950, 242059365, 255777950,
       246522044, 229854873, 136101993, 146779125, 7336092, 152116481, 120670966, 179390618, 179322772, 196388203,
       203760897, 103019731, 266831151, 226732206, 114361005, 202114399, 144326487, 187695246, 136825381, 59539234,
       45892907, 65514152, 151701194, 7160125, 35887558, 20404237, 159049856, 226477360, 99843873, 16465600,
       108864844, 168931498, 236283148, 239795582, 200365396, 227086790, 196593939, 223175069, 33870138, 126859090,
       28087925, 22227814, 163047779, 29318655, 107655654, 252358151, 72150301, 37707774, 168550989, 687799,
       9452471, 207906952, 49789656, 259541902, 34228459, 57282570, 25972618, 132690577, 245195482, 74538536,
       177055412, 43073179, 46329116, 7014268, 189300353, 55589176, 34157619, 134417961, 118216315, 11163143,
       174566804, 259082061, 100064832, 96968647, 64038721, 112320427, 87214043, 192300942, 24090536, 265252023,
       168748789, 185683929, 225588275, 53759266, 58283, 126950361, 169678146, 174441362, 34320197, 101954643,
       4330121, 142207877, 43930760, 188958757, 10601783, 153784051, 169043018, 80971626, 205499937, 203725473,
       65706187, 102182907, 199330113, 202936448, 9188956, 80686833, 51157910, 42738636, 126700275, 137206618,
       167986660, 27086007, 95485519, 140039026, 195230448, 219716480, 168717023, 103291534, 112650528, 217614483,
       230887492, 59031260, 55353699, 83118492, 184759953, 212407343, 195733400, 25875118, 215050060, 198912208,
       166939701, 255889744, 224020843, 89644479, 177454077, 87214499, 86872202, 150495336, 246774666, 267522994,
       114338982, 168106170, 20149670, 213188120, 183101862, 75676113, 114266107, 205490359, 7767530, 257798305,
       139043040, 31308583, 265589458, 88288796, 180693051, 76401304, 112819848, 121077086, 162656156, 187687249,
       157189383, 17503888, 158244590, 215144082, 217504549, 107752178, 266884649, 188251166, 127137321, 255333689,
       115266079, 169510598, 47532841, 146089610, 262644076, 78195034, 1714489, 241415757, 152707529, 29897261,
       166675091, 15435876, 81387316, 170074791, 69079630, 115350182, 157046748, 258147280, 198149308, 212553540,
       235084768, 151842105, 100391875, 125253230, 2125369, 121087081, 119065404, 175876924, 266302700, 19512950,
       21443524, 27594636, 207992790, 227740409, 189288550, 231265170, 163243380, 87232170, 32466098, 203865597,
       213510903, 127456662, 212080700, 14173426, 187779676, 6209085, 232911957, 100410746, 192092527, 224094907,
       214302511, 9416120, 244159671, 95845395, 234241836, 147827176, 222344745, 30880576, 243208334, 265553152,
       100197347, 26882685, 244434168, 253564035, 83771322, 175265499, 125096300, 236754172, 129206749, 144193338,
       107636665, 220206264, 11322342, 1220440, 100548697, 193682274, 152411627, 225528120, 17620817, 104033993,
       148940975, 118216270, 243356562, 13108950, 249822052, 4544547, 73261440, 74330801, 78371681, 79534273,
       65195727, 248075258, 241707033, 45350989, 85120010, 234161847, 69037897, 71924808, 45378272, 214891053,
       34127716, 58315733, 9048918, 122814323, 155889418, 99706069, 243479644, 190013947, 16154012, 60729454,
       33605355, 202566169, 16166945, 30134629, 234308687, 188489817, 71821251, 234492277, 65813737, 221047209,
       175520332, 145633982, 251906374, 149191452, 132771667, 236092245, 216577355, 263742866, 221145442, 57554311,
       139388570, 30095965, 229280099, 256530296, 255248165, 29242670, 43981496, 248100418, 93894305, 255631893,
       96393520, 28745733, 15093411, 7056767, 98499131, 57228722, 22567969, 195008236, 2836420, 229424200,
       40732104, 207513436, 25779765, 130857054, 220899647, 120405281, 218428893, 145837046, 222556503, 136365702,
       255999674, 189542068, 209945581, 16960737, 59124228, 217221003, 164633106, 26492275, 139737185, 137908406,
       24931242, 115156867, 211840946, 77114660, 199676051, 54318400, 177348490, 214574853, 65188377, 155612759,
       100702549, 134679987, 121700643, 44978884, 169512448, 98551170, 268205364, 43029074, 133908606, 85210130,
       227023723, 207080588, 64512452, 84019830, 174228795, 14640448, 28623550, 124596485, 101204940, 172986111,
       157878647, 9522146, 61268893, 96819368, 48438732, 136672225, 127769246, 27166938, 175486674, 216196657,
       132395888, 153861674, 114819925, 115316503, 224049111, 33507160, 163535729, 78421764, 107587286, 160264135,
       27014524, 212390474, 99200159, 71351044, 222061972, 34294193, 235995121, 104403676, 259568824, 161525955,
       245921695, 110078113, 23885447, 99244647, 49102554, 128359519, 241745611, 161934123, 215854726, 127361859,
       239444192, 141269292, 207106986, 116860152, 132260976, 205557673, 171744557, 66765427, 85837717, 14110128,
       165173000, 188847663, 235125402, 234608479, 187001720, 195570392, 153248966, 4809182, 137085849, 205111188,
       65268593, 225124663, 169549383, 189695298, 106198179, 207537628, 207781758, 24225018, 89916261, 267674300,
       172750527, 61144367, 263566407, 228888103, 263698173, 96722591, 136603789, 249168202, 161807390, 221042166,
       45763806, 202894394, 246981625, 145927998, 108705192, 53221129, 205438804, 150620140, 266973635, 54286355,
       82872553, 148904358, 184280644, 12745589, 25980044, 30925519, 88034173, 9650335, 176470468, 83503741,
       110698581, 41390040, 259747366, 15388137, 13192866, 255194227, 268304638, 205125320, 71355022, 43086631,
       155337071, 238443475, 191153647, 4075293, 253939160, 174571070, 192029932, 217404459, 148692866, 38407504,
       259194155, 196558826, 254284414, 84876742, 191151076, 35359613, 71266643, 217391884, 119824666, 185774401,
       224701871, 194126744, 59412565, 3216978, 150825006, 237447772, 44470730, 191920189, 232655392, 39150616,
       140311275, 3921271, 81721800, 173664361, 132219707, 52404456, 13763129, 131630612, 89489050, 65373518,
       160706311, 76136482, 17365888, 260771530, 96561509, 178427751, 235294553, 20392175, 234595775, 151664147,
       65949343, 202716882, 5634941, 140372458, 86733934, 246866117, 176586288, 95915615, 22296965, 98204603,
       201190180, 267093678, 153982485, 41687336, 80671719, 205305995, 101309879, 78027235, 185358971, 29646294,
       137721384, 267928231, 212055373, 87259415, 48216922, 212639840, 111387804, 59622168, 171079492, 9598391,
       186348369, 11565228, 242492214, 64891432, 264207967, 111385130, 74988958, 141088750, 195610268, 187496104,
       247739911, 238289611, 148826381, 67360046, 244832473, 257246388, 48130740, 214897565, 224450876, 257405987,
       120741453, 58324327, 175985793, 214773058, 51360994, 162907937, 116168158, 266933800, 267994841, 11164107,
       36378411, 151854908, 168741183, 80524820, 22889248, 108532437, 18791609, 49053740, 138665153, 117850115,
       160460751, 101256456, 54354233, 111688984, 145036984, 55063608, 142365553, 204143711, 203144340, 33448018,
       125298530, 53104935, 240311237, 100100120, 131320107, 33020549, 265225134, 198630372, 128087395, 128557477,
       249424478, 208254875, 67782831, 165110959, 102164866, 225237299, 167164951, 27412093, 201295767, 76447744,
       119938555, 192624215, 43704519, 158399155, 52155315, 265415221, 257815196, 243651506, 180734917, 234731334,
       84829284, 102026411, 127648055, 83185396, 211678817, 69726743, 39397924, 66260059, 19234968, 217933749,
       111547145, 123918774, 188662194, 214353426, 17019174, 85288961, 2433916, 33625992, 86530283, 248310176,
       88085643, 193750969, 122962801, 36440884, 169940846, 69136574, 61220931, 264191938, 228012620, 237956309,
       19728779, 92754836, 184670815, 66418576, 179343512, 81237551, 231502181, 141055332, 47028113, 213150975,
       137402741, 26989072, 207751136, 222247447, 67948064, 186285417, 72325893, 769077, 182956340, 16304875,
       264999054, 161917243, 156874198, 9756843, 29482850, 72608327, 106401779, 112642908, 65376605, 62575814,
       263343339, 263895969, 97177292, 71528964, 213948597, 100427171, 118257235, 37458887, 209366862, 162924140,
       97838048, 77292083, 255698498, 221118621, 192995813, 85700165, 200424292, 122147780, 168068840, 188549046,
       165578984, 109849188, 143639999, 108229551, 27437299, 45721905, 129941261, 232025947, 112003264, 3575333,
       14397890, 71480394, 252092230, 74196904, 235321126, 13309836, 158408258, 64377574, 72471913, 95732658,
       212945800, 32985540, 140612901, 75060455, 56144013, 131703380, 67715887, 107052425, 158448812, 58523978,
       45211518, 27778247, 96164473, 128270051, 50247986, 259295673, 87982878, 96001112, 161066787, 194411058,
       169926574, 204609640, 221857739, 196399359, 198189946, 18675400, 29124467, 216772072, 154778022, 196019538,
       46844751, 101174446, 231064711, 143984699, 192384904, 264906911, 13526252, 83858648, 48882889, 26316998,
       64671932, 785178, 260640856, 42080441, 69424127, 15111242, 80313364, 201252758, 247637175, 55598475,
       116432920, 170390968, 74565774, 267097392, 91180021, 116088260, 3981710, 116601558, 42497254, 86425678,
       231629310, 207061903, 187864536, 167949064, 204174122, 122027771, 80213647, 155227248, 36138644, 131980811,
       13764403, 240749676, 173458141, 169194375, 159304411, 211404242, 51552365, 4935402, 110162832, 215594408,
       155953728, 153119989, 145382169, 5201462, 73429167, 258168705, 268184032, 16573628, 223368872, 106265836,
       125545974, 46504563, 174461722, 206860500, 258859404, 193553516, 81821231, 212059733, 217171772, 235105826,
       160415954, 84114377, 126201752, 88022847, 117469196, 101906814, 48346300, 212949700, 92853695, 104987722,
       10253294, 4278870, 176551216, 221589577, 246862450, 199878263, 177307375, 135101326, 167695153, 265441702,
       40328050, 75150477, 10216554, 120472920, 185709117, 267174161, 232445352, 25034333, 259544546, 66612561,
       236779428, 189528628, 87054593, 158263510, 236330298, 128831624, 16103103, 112229223, 236873276, 305323,
       259962677, 27871400, 51274180, 174511043, 157055148, 138340193, 219396357, 257695305, 62803898, 128769567,
       94363765, 106244562, 9254008, 226397074, 3616219, 70155283, 197941789, 118077587, 211338950, 206579927,
       36136783, 117218997, 157356742, 224262180, 232897291, 113907862, 100358033, 207437142, 13161250, 199962694,
       221010283, 131463641, 197708088, 264812225, 244532496, 227212126, 213821649, 22186853, 218260863, 88795948,
       176684098, 168323454, 213356422, 215666235, 18866535, 241423509, 32547398, 6875365, 263121328, 77555659,
       117023613, 130538082, 65489893, 207614480, 209087392, 42909523, 128636360, 138470578, 190168310, 129645442,
       245548722, 167886996, 86666952, 117083778, 51213016, 179612601, 152530413, 54495178, 15767760, 183876314,
       125411073, 11443661, 20317887, 185386780, 96457026, 62438098, 136071089, 7990218, 139973214, 96315271,
       87269186, 121626195, 234906966, 267088350, 237003866, 253685468, 243071015, 262884062, 203650201, 171070082,
       107230483, 178939087, 201227337, 22240055, 226712345, 6605526, 38308946, 215746693, 161273852, 193881780,
       231721890, 10970384, 74278292, 78328211, 53287677, 92111213, 234852585, 140747438, 176528768, 28291977,
       171684532, 178228546, 10961368, 67570280, 268387144, 177008319, 93176372, 230087649, 153410216, 225337866,
       226373128, 130658981, 254623140, 99642855, 65482402, 11634105, 251832487, 103803629, 129483887, 66296916,
       265963288, 67069875, 16780636, 67112853, 1390696, 181003376, 211732401, 45390780, 83158250, 37851179,
       199462644, 21541097, 117601642, 130669893, 222876721, 157335044, 212887066, 132014692, 24596822, 107231367,
       220756466, 134879584, 152213531, 170516384, 21953920, 225840805, 265679769, 4148056, 248379702, 20124136,
       238799715, 192778618, 179197605, 201826123, 154876275, 63708647, 56403218, 109795311, 222775583, 247416566,
       149263249, 125412501, 89951890, 42978539, 151233826, 207695067, 75197638, 196644627, 61193926, 203586188,
       247827648, 126944474, 198173270, 262973386, 56907970, 258952424, 53677113, 19370656, 144802661, 197164919,
       82112343, 81590352, 254877116, 168850925, 170536425, 6708533, 249646758, 44394956, 42057843, 265730669,
       11866558, 122620453, 189630873, 151048689, 198112763, 23891072, 73684571, 149182876, 65584054, 264635535,
       193026971, 171000397, 57423029, 127222449, 113116459, 23572511, 39284688, 228006534, 117140827, 5099198,
       79397041, 4629257, 56370746, 48880181, 131965136, 163346440, 104032540, 146738943, 157642995, 117703882,
       17266012, 184825912, 213567300, 74372286, 46123654, 133049033, 29738195, 92580574, 46905364, 266861164,
       39666974, 206259293, 255592184, 173818376, 268228410, 208075827, 67181472, 57848177, 7285932, 65059896,
       155599617, 264456953, 207988832, 114145337, 46180870, 22160925, 192719926, 189395352, 54121338, 236683914,
       100822110, 145095790, 104976881, 32642645, 33899697, 152854357, 138513162, 2528587, 96876424, 69426106,
       228301702, 177747726, 132343056, 150582649, 158581579, 90921204, 13504030, 13395902, 2495377, 25953991,
       190057204, 111668601, 19163934, 134094341, 99862428, 220507072, 146729140, 91951002, 155612396, 172574667,
       18564178, 19676129, 78039305, 193716145, 107243755, 137329889, 118475122, 229955053, 51397275, 27755448,
       118509597, 1102369, 195052567, 78887182, 184550921, 74975207, 142785399, 91681644, 212512296, 90789788,
       65736919, 138428709, 113255127, 144040551, 13280548, 225784932, 70735178, 184476849, 3536665, 123353591,
       124180309, 35289582, 13653931, 209149811, 137558826, 3886402, 164578273, 221941374, 118433519, 256898457,
       62820324, 53746829, 261443436, 27571325, 151171279, 226302296, 32753931, 87120889, 16109546, 86146463,
       224033467, 231139522, 212208304, 78242781, 221365660, 254530093, 65927868, 133783561, 241746464, 144071367,
       68932514, 190443195, 101133661, 167467690, 188422025, 141113098, 108966526, 198774709, 65360533, 16826400,
       116264381, 219607454, 190274930, 254624877, 200591886, 253262528, 107717577, 230094906, 141661460, 224823221,
       203393829, 36284158, 137161376, 12726848, 230490741, 34496583, 95706728, 2414682, 98757732, 173067062,
       109969764, 256419498, 1477192, 263551873, 224122830, 9869145, 125024491, 12992086, 171688917, 220272663,
       177927455, 12615236, 234411371, 138356622, 42912325, 164062380, 155338862, 229975192, 73357659, 77160946,
       50646513, 22646875, 228794509, 248386650, 194307414, 131032521, 97482852, 15081393, 111807061, 139725640,
       13741986, 129887581, 36586996, 130876310, 203338579, 39586147, 52201532, 194186551, 24852220, 194391810,
       151260245, 137481962, 77871671, 131090748, 251670673, 30611257, 140557633, 16040188, 263699465, 124249859,
       85031093, 208199037, 254089765, 13148664, 13594575, 178259068, 121389309, 8595634, 141379736, 31094177,
       115400306, 136757159, 211508343, 93395197, 244361476, 37749058, 47772215, 244454786, 244184911, 157144904,
       195469926, 164956986, 35672543, 226034643, 222087487, 157871200, 238731421, 53090983, 215169598, 241964949,
       153363187, 60851449, 96637522, 199425536, 47992950, 101681599, 140932578, 225553548, 53163436, 90742989,
       248101671, 195484399, 155102303, 1841937, 205651628, 232427528, 145139818, 248360780, 142585959, 115677392,
       241163607, 7121290, 266346633, 11654137, 267550024, 75783950, 151614908, 150223270, 163282576, 177526793,
       241143154, 235873214, 262319923, 212024943, 177146432, 61971751, 63573637, 188993465, 207841550, 14240705,
       258825151, 76784633, 166731495, 105695873, 99430222, 36678348, 162427614, 240036687, 213151983, 249306705,
       151170989, 191007767, 103521162, 12656110, 57502182, 143661586, 190504173, 162663658, 224850056, 265015775,
       171204476, 55864653, 156399295, 222804921, 135785544, 138242108, 252118690, 250303281, 154038762, 52608796,
       42467798, 38529406, 55686329, 108965002, 239997732, 257905919, 74481160, 18921740, 222035222, 130255693,
       95568063, 142494343, 63819091, 253296391, 251058270, 62576671, 267128214, 145226557, 167239256, 17445063,
       21612866, 219125107, 253760125, 31558576, 83406498, 68605635, 106076740, 91811099, 215740258, 223828661,
       224028534, 107867803, 216714277, 146485711, 83874488, 50213924, 161009602, 74523531, 196289780, 108544444,
       142753784, 32546624, 33449115, 200307501, 86601697, 116267083, 196411681, 126049730, 248728511, 100591391,
       144680561, 204492971, 202043068, 12013613, 19622928, 158721709, 230347004, 78610125, 157468340, 127140935,
       2751279, 143743121, 244910201, 63702629, 35067099, 228367351, 98706842, 152716590, 82441201, 40934254,
       145373578, 243736651, 164808299, 78545234, 104108370, 56439145, 38129281, 184121898, 93543103, 194104512,
       256656581, 135517150, 251286926, 62099425, 260883387, 147610449, 259221635, 118948769, 46469580, 180810382,
       87678380, 82055308, 11851615, 245704919, 10097552, 207697073, 151591946, 157954846, 243876015, 206808587,
       14061782, 92893156, 213540793, 167594991, 59724319, 99246103, 76885246, 113966565, 159800997, 24633238,
       85582538, 102951858, 173356907, 12870389, 200012840, 107728768, 177339906, 119797431, 110376850, 158869585,
       63197763, 192522845, 104222338, 161515239, 104985679, 240660681, 235027401, 114899180, 11336208, 139312688,
       99901970, 85479813, 133667252, 2169386, 9281157, 202124132, 162798884, 184394560, 128063405, 119806649,
       72957289, 180575311, 256485823, 135174908, 211947859, 107236899, 176023305, 39054648, 1243343, 173522605,
       88497549, 135529000, 37553893, 143258375, 31763993, 44449620, 95821932, 8696659, 86173833, 31351850,
       179322687, 111297375, 118480320, 265289713, 108154045, 244898708, 142301696, 53128795, 86052329, 265025843,
       142085051, 173771552, 13042929, 132174868, 85020943, 231288198, 65095213, 222421158, 236918378, 215143850,
       105684925, 246961180, 219662410, 239676903, 117265906, 97093164, 128078420, 231570727, 182323607, 83154060,
       152587554, 1238438, 242931926, 116283664, 167997964, 140967266, 235011343, 206999442, 179603226, 251235086,
       114501427, 215870088, 95273950, 216482475, 155155143, 216893769, 59260310, 30270147, 101973345, 93204421,
       87164952, 3899436, 100195135, 211521364, 202620868, 110173531, 107696504, 251651154, 142198020, 91566237,
       55165328, 46447948, 10492115, 23546547, 187882191, 23175642, 212469318, 35141662, 164713717, 235786775,
       53230600, 190735956, 145034383, 69128272, 98543672, 97096745, 36089317, 257968929, 194617826, 170627642,
       138358853, 100583172, 185284105, 45572396, 190461546, 2945341, 141530388, 238918488, 213225688, 155912157,
       35646059, 15668834, 80040867, 43848406, 209072972, 127255856, 187979986, 189196907, 87377559, 131850907,
       129487857, 8296587, 255728558, 56581195, 159465580, 39721868, 78120380, 204119936, 211100105, 112565365,
       203619679, 110361312, 207775837, 126935701, 153999717, 23038702, 266043091, 61895324, 100893152, 87363893,
       163755226, 147457757, 229872667, 174042693, 248479729, 68162927, 10549127, 156780432, 151156240, 129008781,
       116497895, 266815714, 96270063, 39992477, 229689501, 91342692, 157894392, 248666923, 134477704, 236844089,
       94281221, 6145921, 166132864, 102258336, 192015653, 4955353, 139651782, 249955090, 115260959, 166387831,
       191538327, 70439077, 241966084, 154209378, 233384221, 230718471, 40288725, 86132480, 58701812, 200196817,
       235437834, 225397015, 104171788, 247914336, 64956029, 176684637, 96062193, 73298, 233705173, 64733409,
       214620776, 136574458, 149629832, 118231124, 152532100, 29834463, 40544281, 24562560, 100337103, 145173949,
       202786319, 168941522, 90738471, 152855346, 177688562, 106750471, 67706285, 179032302, 86462447, 149557214,
       189822400, 252122650, 110595990, 246542485, 73895517, 223250464, 38824845, 190342131, 253697186, 109615223,
       156243885, 221053997, 4292649, 252103835, 54651384, 130651846, 106546467, 111185481, 174380679, 144730823,
       126076273, 177632440, 56960599, 217607952, 43020715, 150902859, 170969989, 24910854, 124449163, 134433365,
       95463902, 18177452, 139113838, 212615193, 610427, 148388289, 40830340, 126655017, 85137883, 215595162,
       194114841, 145465150, 246625184, 152360400, 209827154, 182113202, 168884061, 88685354, 267640637, 9330956,
       263491016, 176963821, 75115850, 255763091, 28824830, 124120700, 32026821, 197161809, 58539770, 193402731,
       137750650, 59947614, 156296185, 220124771, 190806912, 85973479, 52601801, 63508635, 144408209, 54576424,
       263595354, 18475311, 75128051, 22148262, 176391456, 205831932, 46647324, 163587536, 64210345, 134483189,
       167821478, 134601956, 204758456, 215706437, 170111597, 189944032, 46627434, 223799814, 14453480, 212563286,
       203506785, 116592967, 198322532, 222470396, 238702666, 127202748, 26446243, 242885219, 196583228, 66212155,
       26691667, 102312355, 231999416, 86206469, 259364058, 47654478, 17804999, 187536686, 235435087, 48634703,
       21541148, 247909140, 56815427, 147015642, 17444246, 237710448, 68865606, 102076001, 253475405, 176840363,
       83705790, 32045196, 5450026, 22807934, 265851303, 27692834, 148348472, 5979609, 217134588, 71580114,
       228191103, 150800611, 131984681, 225495350, 206787987, 208332303, 248245181, 214369690, 236884456, 3426603,
       178070677, 131692254, 227844612, 227704966, 152259522, 63492025, 63064129, 216650946, 85106373, 267162101,
       168708192, 46580303, 88458489, 222454070, 37142644, 81248069, 95413588, 47212339, 94173057, 189036113,
       150066494, 227868020, 184272789, 209425849, 49535001, 20559532, 42624539, 118484043, 187463652, 199238500,
       255651780, 265121897, 207698443, 86413755, 32008583, 200997650, 10571620, 67458957, 165790255, 53240634,
       207885625, 249289348, 5400456, 39661478, 160144171, 210529543, 117091628, 157331799, 246307310, 119585838,
       29245763, 36304845, 185901071, 122128180, 6540265, 265590857, 160220200, 134058872, 18098056, 251461713,
       18015247, 241298955, 152575961, 96914953, 249616643, 104299128, 168851011, 143959066, 29944043, 194471336,
       205012918, 36526575, 174014526, 214331035, 60240096, 107887294, 156999650, 219631675, 118056485, 61694303,
       153142469, 76260946, 212047330, 254318451, 185344235, 206813826, 50610150, 95489143, 44848259, 174037556,
       175256886, 53312959, 227612545, 256450022, 34544303, 27888707, 95695459, 267283969, 185211211, 140639287,
       64427974, 34983144, 168532247, 123218828, 63205126, 129726269, 2945417, 258643382, 75235470, 51790234,
       100190673, 181364375, 12025516, 242385496, 185103708, 74096774, 41206650, 4428835, 140706093, 168294996,
       241116954, 33636873, 139268094, 231042289, 243288696, 147180551, 192263083, 9541453, 260504, 10832739,
       75632486, 14122439, 30633421, 135573552, 18571130, 127539257, 63163190, 224633191, 89602778, 139342756,
       253722696, 169753088, 146056392, 125300942, 38307500, 221182689, 9733185, 137494220, 96638844, 25640122,
       145676833, 35260712, 204985453, 166072807, 257566070, 192815154, 44752736, 255852406, 3642420, 22830598,
       240535608, 225796462, 180657083, 37907032, 84439509, 119794623, 155759657, 72455811, 237518576, 239161253,
       256419301, 213957526, 267646337, 260455685, 229983890, 230209752, 253929762, 212702246, 67455241, 205368220,
       230471218, 112711128, 105477330, 130759385, 265583545, 213294647, 30605408, 166260808, 260031432, 138551439,
       91773968, 55663239, 237078024, 187199877, 248383590, 108762479, 141641347, 158761597, 103274443, 85478599,
       221875681, 90612146, 94039676, 149231579, 175122781, 255346171, 136768689, 177605740, 817211, 66433479,
       248963286, 131103133, 153865640, 60205617, 48674341, 177833490, 37170323, 19701367, 140460758, 60301000,
       81779959, 39643327, 25221284, 166013558, 212548312, 216356902, 3935636, 92193424, 125402163, 158543051,
       194321021, 194847241, 49418803, 112295501, 124705128, 239154576, 221220651, 3560046, 136877524, 252418364,
       131166157, 26872933, 164776203, 196855856, 149341253, 87021963, 240894844, 196353310, 254641366, 33078654,
       43505977, 267679106, 250389864, 71761477, 219264980, 113055159, 69607012, 237777557, 209868909, 240649017,
       43663478, 134244033, 105595749, 149150149, 113262443, 137554323, 146826732, 102720166, 258778515, 243124962,
       121533971, 10105754, 26519666, 51566869, 146082880, 195860878, 250784759, 243599524, 158186869, 126524599,
       263385880, 99814137, 230165068, 206279379, 257299514, 177778597, 262850352, 98646479, 161760836, 3446530,
       135559941, 253841178, 96706357, 213954543, 149118654, 118824517, 176599782, 76747192, 185396562, 135482765,
       222092952, 89280734, 236700102, 249088166, 124975792, 119793436, 174203989, 166367132, 141859116, 131607426,
       109654959, 7330130, 8144474, 3587296, 263527494, 17829934, 145503228, 111457902, 124728736, 170841776,
       212042583, 38700344, 122459907, 118747452, 61511813, 39708077, 219808036, 238735436, 172370322, 239917249,
       124610280, 219584683, 127723229, 12675562, 227181428, 246725994, 172574779, 186528056, 104560366, 108356524,
       65355488, 226827778, 122473339, 113647484, 54660365, 265485020, 47150985, 92245064, 112719095, 164740244,
       153714699, 138282216, 294057, 145935365, 136978249, 83064160, 107122821, 137004504, 139512765, 28278824,
       28529474, 34462978, 19575326, 203469498, 156210194, 148567933, 132414613, 153921369, 148879364, 70662680,
       134502297, 165433542, 84090828, 13927697, 127873813, 139233518, 136861521, 18735422, 231628230, 254351376,
       208319927, 79188893, 230735462, 170631736, 26816418, 211350752, 158427884, 191122048, 195199872, 220043163,
       33911682, 27855857, 193319725, 258806361, 252481319, 71966432, 132437832, 184979310, 71795460, 73944784,
       131656400, 40773396, 130310180, 6383875, 158906927, 12516063, 53485438, 227626580, 201743816, 204853710,
       152915611, 166661568, 232418407, 61000288, 221692282, 262067457, 173945219, 25408100, 198869683, 175022218,
       237113926, 198223251, 53390842, 139702435, 267600903, 77345806, 195702230, 48504714, 156555229, 16894070,
       255185413, 22462463, 172404046, 98804878, 18364934, 58867973, 147030992, 95811439, 13478406, 190993078,
       244098464, 140950856, 50734340, 60942024, 63914751, 238451447, 136997834, 135771763, 35104910, 259262459,
       317434, 59172819, 227870160, 2152964, 262020866, 70341021, 172053539, 97016712, 265285968, 253222168,
       241250444, 223235753, 183066534, 156100056, 1236431, 172989231, 220772971, 92563330, 78732087, 164466001,
       10578985, 125908964, 153938374, 74737040, 30160070, 96421730, 101254750, 15983826, 108633159, 191836185,
       206275932, 75932751, 80039503, 176120337, 236965172, 208777545, 29721256, 249354345, 118727320, 218290208,
       39283964, 66194295, 189503580, 110801360, 150246163, 198280257, 86763069, 68706785, 251617939, 133657984,
       218123127, 88517458, 2016047, 81363319, 91572760, 116176743, 138959352, 167398140, 20074605, 41279225,
       183593428, 52119695, 19079345, 182755997, 82729892, 25758993, 116155200, 186340072, 39669072, 28341739,
       254264235, 199703593, 187387381, 167240841, 216094135, 53445618, 24896935, 100082904, 55873277, 143374638,
       30406986, 107799036, 73074829, 173592137, 38674133, 48656847, 73608392, 127209681, 12883235, 259644802,
       260530133, 121705727, 223570155, 234391855, 147634756, 102183040, 204461692, 95561645, 102191036, 178455272,
       98109301, 193960690, 180976481, 180458249, 12702581, 48477220, 213332269, 83775447, 88568330, 46714540,
       62445719, 97830355, 241224703, 222808880, 132016820, 24152177, 234329231, 159377847, 232557538, 50623612,
       249538851, 157150356, 34606713, 235958912, 168765973, 240068892, 79133284, 58379675, 81842345, 134125477,
       148882535, 245445492, 123982282, 252737404, 91953557, 45865869, 197513650, 140965668, 27082731, 180431025,
       58099704, 208711185, 117642958, 69065758, 31410064, 18924648, 199968920, 72490505, 59331264, 109222433,
       240838952, 67653587, 87724362, 206708610, 37102468, 256481882, 105809355, 13866577, 62981264, 100710883,
       140725602, 206350202, 152265751, 233004153, 195154582, 87450958, 167887394, 136807578, 27454290, 64421154,
       201062165, 105121366, 153923869, 221564583, 38298435, 99114176, 160711479, 188418714, 23216643, 61380324,
       214634792, 89193396, 186021124, 2912492, 113831872, 159113577, 165851874, 89788284, 120903861, 209553457,
       165887328, 207887761, 167439756, 259527012, 201790935, 13150653, 195248428, 545239, 186178157, 169864722,
       58824687, 78583561, 129668616, 42307484, 213488616, 15089259, 164094610, 122732521, 6064910, 154050862,
       44994425, 242076516, 172146396, 39442221, 228586984, 67292904, 104412262, 16917668, 93411188, 18822501,
       59306972, 169157589, 244355383, 77272189, 13641757, 202258700, 191221099, 48477961, 155331725, 263131991,
       223257445, 142256908, 4404774, 202076182, 267702734, 193282055, 150943426, 237892291, 121150424, 16641369,
       83313913, 34256721, 83860863, 97556440, 245962991, 192366620, 197337941, 265835089, 70828909, 221246417,
       140484872, 237006576, 173489082, 250650268, 227485197, 212994184, 19869561, 163575392, 142364203, 124141960,
       58944137, 20612560, 200070366, 197190459, 244342972, 61136826, 169112454, 19262186, 123668886, 20250629,
       147823701, 45316564, 127510092, 6638378, 176253926, 20092509, 58169187, 12011773, 179650576, 153391275,
       72056643, 88651523, 107724558, 155662230, 126864710, 224421559, 175624841, 62093345, 231962141, 144003936,
       10869134, 216169524, 53389916, 28343768, 233056944, 231002611, 263835064, 262731688, 58344556, 181138203,
       171357070, 166900226, 23895027, 195085545, 231920276, 74742855, 139404131, 143521440, 194274844, 20587519,
       176266226, 76211636, 251840436, 141491973, 218079983, 16042727, 175055597, 45429964, 185557564, 42835612,
       133423056, 120733666, 92868558, 146106946, 16913952, 136803667, 242527568, 88806125, 13835292, 52577149,
       7110742, 124031716, 4818367, 56726709, 136579621, 70312410, 100065698, 98152254, 211640987, 52805874,
       258856003, 52878138, 143577413, 91989661, 166606440, 266278619, 97816066, 103328917, 135830768, 170109722,
       131939198, 231491890, 48396306, 224333024, 165912939, 229956876, 70612306, 244104501, 259675088, 20771243,
       204129838, 7908152, 204932069, 66480874, 107349612, 53593672, 222497771, 146271920, 166595595, 247051302,
       96144917, 238020966, 22349598, 199018318, 121069796, 231653196, 9704022, 225890306, 118571802, 232491648,
       182792871, 86959211, 88831433, 93230061, 224648068, 6961027, 126537417, 114853733, 188024220, 226635804,
       89650461, 158522983, 120803897, 139325313, 224712293, 27877158, 101918756, 3479173, 87406034, 180615833,
       73418009, 71754801, 171395881, 151779617, 233968117, 60951000, 189299455, 39288674, 193734543, 212605416,
       254812854, 76891180, 10447328, 114294821, 54661615, 1975383, 163353293, 140270262, 231111146, 226435757,
       25020753, 203990045, 188557075, 244385969, 186137968, 226864426, 59841304, 253680831, 67653316, 67075974,
       244471746, 108866145, 186983103, 140936010, 154147563, 201907834, 205629663, 209475419, 214429997, 51809433,
       255171507, 72436412, 50357386, 90759914, 174687424, 83802325, 16236252, 10901323, 171744705, 245331190,
       46909056, 179630164, 85877738, 133473370, 133982024, 156927725, 176525972, 42773944, 218760862, 15842072,
       222657698, 77677873, 106814283, 97537101, 82383326, 45006310, 245093022, 236847466, 141211479, 68774595,
       95834897, 56171313, 101542419, 77944258, 224451866, 27215469, 49543575, 134994781, 146241710, 202556809,
       103046803, 248098448, 167669020, 32242388, 215530103, 223490634, 122604886, 49367197, 102882043, 181829251,
       34353891, 135827168, 129009411, 75838755, 189018919, 194649710, 212153068, 193252509, 64845408, 245821390,
       154862233, 34987610, 164215330, 261348731, 198683964, 238874520, 21038793, 73500847, 237040702, 85450664,
       135792818, 215669762, 25754373, 214392070, 234926789, 88754487, 189454741, 14879985, 22223197, 223536961,
       31502338, 207559434, 171233164, 242782667, 70606995, 132342643, 246540844, 168287657, 150563483, 242170697,
       231433442, 213468701, 91785361, 210186992, 158502022, 158820381, 68851981, 123881853, 174035073, 11224238,
       231153421, 160307119, 210991261, 55666400, 258722760, 210247333, 165239026, 250396627, 195310788, 171157958,
       237489449, 130992320, 239040061, 199780819, 252051659, 166303564, 117899310, 138692889, 101418042, 3443473,
       185286849, 110886291, 170287684, 161569450, 200031356, 80655509, 156006755, 99746147, 224745848, 169515350,
       141208447, 11371992, 186194719, 126313771, 112181904, 13997711, 7034919, 9803221, 239617165, 224758251,
       68245047, 106310647, 99815436, 7946924, 134998061, 9430620, 208478967, 200647110, 72861718, 175854987,
       30107225, 141220470, 127384681, 72645464, 106706799, 87782343, 199092634, 59423560, 22600654, 243121947,
       61528858, 197743511, 125209126, 70528656, 200612271, 23446963, 215351364, 37570938, 248771540, 46828998,
       91491309, 84419426, 48693309, 123869050, 209038038, 64663618, 125798653, 102612626, 174036366, 42809701,
       61361685, 44490766, 156452638, 246721561, 157829537, 259047301, 164234436, 237373056, 25246920, 206191578,
       222746308, 187391901, 52933459, 114373277, 47035928, 133500960, 202941522, 60428447, 196037469, 258453235,
       53320618, 199813807, 239824378, 144046840, 124713615, 243841178, 22331547, 9293812, 121534873, 132830070,
       43621573, 226593039, 23001509, 167024274, 139246857, 53672412, 159497505, 204931339, 179032416, 156714128,
       222895998, 40198321, 148776591, 247351614, 122991332, 184918916, 87580426, 55802974, 114725477, 230696562,
       256518005, 24023759, 224943616, 210294803, 144726212, 84933837, 124319487, 131004761, 68356511, 191364901,
       182335098, 10943288, 184623608, 90470667, 152181399, 94828829, 36905480, 266503332, 191729899, 51585411,
       74402708, 213879319, 240080769, 87830640, 225820607, 242354319, 142192162, 33270564, 35849771, 258767445,
       158703291, 208373034, 25344744, 216090199, 185230969, 248492120, 72116751, 44442872, 3490356, 129931868,
       244730817, 26089528, 9779268, 104005651, 107289874, 222599668, 8022787, 193650043, 51359612, 78556037,
       72376925, 113643541, 68188254, 25001513, 142445137, 83963910, 123435598, 129264159, 75675930, 253598809,
       56467158, 164029360, 71288997, 18129863, 130074752, 97275816, 39366116, 105696411, 13041174, 148049824,
       155843336, 162005642, 215789207, 100478054, 168309819, 120188005, 172043040, 175232545, 43548458, 180098535,
       59010384, 74623955, 232358079, 253850914, 136471207, 141826495, 207236499, 216555775, 188643835, 20871916,
       68215203, 223365323, 98477005, 165337398, 106030474, 238283540, 37015632, 36334018, 175028260, 102855918,
       74467448, 246259828, 240410857, 119454952, 14223779, 59521872, 220966684, 100141063, 117977418, 137499117,
       113000035, 249686438, 6273883, 136191314, 147354307, 248640855, 14463613, 132217439, 259521011, 29719324,
       215746188, 111087795, 25767660, 242531222, 103652492, 92363633, 97769735, 38559864, 58079844, 206059358,
       50876548, 176370506, 251655133, 108583560, 752, 93184462, 179603454, 133652166, 161080658, 154583928,
       201005521, 201797240, 199250633, 254957322, 228378300, 152977509, 36100667, 247567969, 232627856, 173664038,
       207797279, 49635089, 102503875, 83556460, 42716556, 92135455, 221722655, 42140178, 226342603, 120851996,
       204366627, 243263725, 27743650, 44587043, 182269142, 52753722, 15746971, 146001095, 133374710, 180550488,
       9419959, 191751103, 249134219, 256987778, 247427668, 200483090, 186421952, 70695050, 140177785, 156818996,
       99615857, 84980283, 107728119, 115515801, 54804064, 163297151, 45326312, 106368320, 100870296, 122843385,
       133867587, 55934596, 265572102, 153063399, 90881237, 99313635, 65286850, 130766263, 18710229, 235125145,
       51260300, 10830725, 10652842, 31361053, 226236816, 255859872, 49078121, 267806701, 103496978, 255859396,
       99876427, 212951173, 20816317, 126478275, 241462009, 111717625, 113698469, 67571823, 258836398, 109048839,
       256416000, 129112883, 100497701, 160283762, 90874162, 154160371, 219754033, 145170172, 79058332, 133845979,
       254080065, 9820884, 235965641, 172822891, 28128327, 109127353, 169181255, 252205833, 52145266, 18685159,
       157340569, 238806183, 66668754, 31065114, 263817692, 62319406, 80275709, 97701124, 122131939, 108138014,
       3073034, 137607938, 224557538, 107658052, 130367087, 63676668, 173673711, 61522650, 201115638, 167186071,
       87426506, 221570326, 172234757, 76361670, 125812891, 138195412, 85649216, 235347481, 142982123, 39555680,
       70513858, 186225141, 236246923, 161850161, 118989249, 116965349, 94810785, 180725429, 36543250, 112268104,
       190475879, 16056695, 231825907, 5340097, 98335131, 100467501, 3161104, 150569562, 168237922, 29143428,
       243089388, 219968959, 48926807, 76922099, 114223304, 51533284, 113288592, 95477489, 204134378, 232595041,
       113096702, 170394170, 1821392, 188680971, 243136337, 170028759, 130340403, 138874151, 181686620, 156788499,
       224592356, 31095144, 230152319, 36927243, 37145743, 192342001, 46606208, 144961033, 251921343, 32995812,
       200736346, 259831733, 241507969, 11854606, 254313945, 260049172, 144642438, 98215298, 8999807, 153381906,
       146032834, 105717755, 172124314, 263080720, 12170394, 235272409, 228032487, 260475142, 3546203, 26571109,
       243854095, 82186123, 192690329, 159125926, 121597542, 129337465, 29274063, 17948967, 242499939, 151900161,
       25955128, 65294432, 138881336, 154101342, 26082256, 136749672, 101853777, 26837293, 57959067, 235402443,
       246644558, 17615715, 39949339, 94966533, 108364595, 39331124, 53037594, 253404787, 69003154, 73276402,
       44315811, 167860822, 101458338, 198480052, 127309567, 27196228, 176262978, 232637470, 224101529, 21293336,
       207567279, 196324461, 20022935, 181564311, 136679241, 61334861, 204530811, 177275035, 194524005, 104453145,
       153374395, 237350760, 125592742, 71798277, 243104086, 55059302, 222165357, 155395911, 50871789, 267424296,
       84524171, 150245349, 232871113, 130127830, 79986737, 162181132, 210355877, 9828393, 231006579, 199076823,
       197787504, 210090759, 1800126, 153161463, 79390621, 154016731, 134966649, 145696388, 94814762, 258672885,
       193486791, 40403773, 7373396, 109662169, 164339350, 230344192, 41619877, 84252093, 86718256, 244262255,
       106984170, 9568588, 168375554, 265212289, 267508000, 51984254, 201365231, 34538006, 87470254, 117773337,
       102982218, 82451598, 39389901, 175658330, 25540148, 48000328, 74974098, 120043587, 149207591, 109734478,
       26446910, 161573918, 51947468, 118721676, 34260492, 80931655, 132180485, 147174466, 255387315, 245315351,
       182462084, 262212719, 82458822, 80106275, 143914918, 251749072, 219403041, 46263567, 261751959, 101476107,
       6100815, 186334501, 9761187, 268232577, 16046718, 136057485, 151452689, 221749931, 167647254, 38511819,
       2677737, 264967897, 30999592, 122967391, 31432688, 236843212, 166971468, 3648688, 164735346, 167086522,
       247927507, 16685118, 25668702, 4815856, 190390753, 84122010, 75994944, 255176846, 227681231, 176494921,
       235244829, 95543941, 67036134, 85810638, 1906735, 141963692, 212348878, 173180416, 236399033, 174237215,
       133295379, 31764985, 111953328, 143080494, 62848984, 181696871, 140309486, 260240476, 213168317, 219651670,
       70160534, 235238552, 209717380, 123334591, 153616303, 121799719, 160143086, 232803081, 27395973, 203553885,
       155543327, 205841211, 29157428, 38443864, 36801620, 240823209, 66786008, 72292611, 237422243, 99101300,
       7533126, 96960691, 230649670, 21260669, 247973543, 130580074, 51632441, 35865241, 131279014, 98545422,
       140077803, 93307028, 109493423, 115069604, 156364867, 251223991, 25375175, 191152186, 35042747, 12760789,
       111355532, 232454338, 228269596, 92336400, 213376336, 174016688, 152204585, 104649850, 80616561, 65665743,
       159020991, 10275806, 101385904, 38777011, 28730646, 791409, 249138610, 236558400, 48914653, 14081603,
       65891205, 45860410, 85929867, 262482496, 70390592, 52408873, 58598138, 86797412, 165136338, 53472766,
       14324288, 58104422, 186871171, 135230200, 87016797, 162162937, 174847783, 189242633, 68522618, 57881939,
       147044913, 30650626, 44096946, 158071515, 478603, 188343369, 177603285, 182790504, 155827588, 144809694,
       249372971, 71005886, 184054761, 107364286, 83874395, 259822068, 220828200, 24333822, 42222330, 22655322,
       10575438, 230992195, 64002512, 18368654, 251199711, 43603519, 239844142, 71707985, 78888149, 222263897,
       109651740, 139791068, 245925763, 4303258, 152031741, 156069392, 237277976, 16594975, 62852774, 76392191,
       67698277, 153708766, 218166716, 154625716, 159696814, 80595229, 26453317, 182829572, 69283037, 235409552,
       100800867, 186974189, 250432114, 131718956, 208928220, 254114428, 2968420, 79394346, 214667765, 69980033,
       262848511, 116669204, 197955312, 226142528, 104029459, 162342960, 58219420, 82691582, 107606555, 79147047,
       102069454, 127757997, 218921310, 156271762, 22962504, 151776449, 93355576, 22770727, 86580192, 56727973,
       239825925, 129170962, 91717045, 221880992, 131210504, 24065919, 131090848, 245102838, 75571201, 106816751,
       195526504, 35812069, 202579489, 23990804, 266091406, 62084715, 113571976, 252050972, 152613894, 242418098,
       209168809, 121546975, 84781017, 14765027, 241804376, 245983847, 93939500, 170839434, 131797238, 47858801,
       164290317, 100043910, 137472905, 246799837, 140485593, 124306799, 101900160, 212546316, 160906692, 250431858,
       262737760, 65476895, 167661846, 138858460, 241298440, 94171208, 70855536, 28376983, 12304340, 245116301,
       202057108, 172208448, 4341655, 51092410, 96301610, 109240182, 206138349, 260999785, 211613449, 245254306,
       243736673, 69104680, 130835517, 100828583, 180935616, 82385942, 263823765, 111666013, 149407062, 181121157,
       45664020, 205282523, 37875273, 255796244, 252529387, 31294038, 238614915, 98445036, 251612082, 70036560,
       42319890, 154743286, 194538862, 19096295, 180618723, 60351603, 83451359, 146630965, 91375236, 247426149,
       210358930, 15680286, 258245815, 113815866, 158259664, 63883974, 189031317, 50833188, 102497859, 122467546,
       215372034, 198242689, 81889598, 128296067, 198312505, 129422672, 211216014, 97663837, 76483980, 111785458,
       242149675, 4837473, 156863198, 50879249, 194120037, 257013821, 102525548, 108828014, 73695909, 240825188,
       183124279, 45821270, 81426224, 84542058, 145521768, 29564920, 62527986, 158709804, 191210993, 11289231,
       135692098, 54926773, 250384023, 159158193, 215532580, 248578100, 109524389, 10028686, 72022922, 140972877,
       25594737, 161238218, 143621405, 95665487, 123047989, 210305197, 32408579, 215460019, 139217326, 14956875,
       106829412, 65663676, 118081954, 5586495, 204959082, 167452151, 61191223, 99489258, 196854403, 236880166,
       254090897, 29720732, 229993560, 217605399, 256481742, 29081230, 43025222, 252696623, 172383792, 225886493,
       39459735, 184272055, 140741256, 107312507, 232555651, 133081129, 192175994, 158229136, 93028241, 6969357,
       79776521, 193483180, 267097772, 16894062, 253555011, 58426888, 103892842, 18943013, 189645444, 165257548,
       234375350, 213900298, 129283944, 13040988, 33013204, 108606481, 250134858, 115384548, 72981263, 94628664,
       221728237, 4904882, 65769978, 167183188, 136233444, 35827509, 207600091, 4063847, 114053491, 242449949,
       72555684, 40159448, 24918764, 268145629, 229481796, 51109607, 68391936, 100909830, 162967273, 182998276,
       229639052, 6017262, 59431512, 7478662, 169799798, 140158783, 48168409, 124563235, 227830003, 6803760,
       158906120, 102556113, 179896050, 107463277, 196622415, 163561208, 145291812, 35653520, 122812913, 267981974,
       156502132, 84024084, 95444079, 32270041, 232688056, 176623549, 86131128, 201811254, 267851326, 234258803,
       66350038, 139561064, 159320087, 72973121, 157672950, 178879291, 117647561, 226625823, 230445516, 56187052,
       106183863, 94581937, 76798507, 2900003, 209087733, 33106610, 202402578, 171484122, 121646359, 89254178,
       235211305, 258513374, 29780247, 191095647, 191207827, 129194434, 196369161, 141382727, 224422051, 76921679,
       684666, 247369011, 66952936, 261364925, 235005719, 210540608, 127265151, 162986962, 176212076, 155593885,
       229679544, 128430539, 85412800, 62449694, 104560305, 115277247, 142929425, 69607579, 245798611, 91926455,
       256586080, 112093969, 57659897, 129973732, 18072800, 159599619, 248119344, 1628644, 202763929, 11651149,
       251970347, 21751192, 180906684, 222015573, 50229452, 16220879, 130695747, 166480930, 179412545, 28982303,
       251571728, 190368877, 163752491, 147712870, 169111349, 59781735, 153859943, 171261575, 200478802, 245774278,
       219811970, 222755819, 64903193, 84799377, 63634191, 114390797, 214794154, 106182373, 68382639, 163691833,
       148083143, 8338124, 131516710, 221245548, 106835280, 190814502, 68731738, 45501859, 216685016, 139567314,
       195520734, 254459392, 175802380, 80130223, 34180678, 59380715, 195113429, 235447231, 230881803, 178987655,
       35663861, 8889869, 84505413, 2484772, 50245455, 244539178, 10630103, 129388211, 193639762, 21955035,
       216590139, 215747767, 51891761, 265215880, 202974846, 58802456, 31297217, 134334412, 200583106, 3863166,
       229752111, 90420086, 267690272, 152438389, 220302942, 46732704, 42789959, 14769932, 85344036, 151398767,
       38637748, 107684627, 253315784, 139258154, 241826846, 174079615, 1804301, 112033696, 78745256, 253001912,
       166533605, 81839198, 188987139, 220222079, 103108763, 210766581, 191577642, 68304242, 8082648, 32092492,
       228574389, 233982271, 193176631, 168609593, 54012601, 125545697, 268392285, 33314490, 81400203, 181337364,
       72583197, 122894246, 98851545, 71993681, 110164889, 15397730, 227595564, 196886675, 77197619, 233176696,
       239913504, 122231791, 148100371, 107410904, 105771829, 117562051, 28152514, 48774032, 158300550, 113312000,
       104714409, 149885470, 91097092, 2244197, 82274468, 240282657, 231512552, 60283835, 1677627, 163544200,
       184453589, 168480564, 255659628, 218096923, 174794200, 102740266, 27716986, 184519184, 205578637, 56084195,
       206283527, 217410291, 144816825, 91885629, 101393525, 100410294, 93168413, 155192212, 124699593, 251703338,
       58763424, 134609310, 129839444, 14496566, 58789399, 258821781, 81374767, 112038323, 240552539, 1136852,
       21634060, 225679914, 78060280, 85874989, 58795828, 258049082, 237966560, 132613142, 192793045, 233670712,
       246190174, 82558727, 248966757, 193256185, 63904057, 245919671, 136861256, 224888191, 195172874, 23919751,
       130602041, 171161379, 235400956, 183286436, 113530741, 70306433, 71683717, 12745763, 172704202, 241625274,
       88823523, 123158863, 51948211, 83284104, 104076591, 33520126, 249847008, 189155994, 5146353, 21929747,
       77094022, 179301735, 253815687, 29012675, 159400463, 109690060, 89485558, 109743917, 245463175, 102643991,
       252690654, 233683394, 38665276, 13319037, 73088000, 56918478, 232827488, 241204443, 96904181, 245169720,
       178834057, 138399385, 189902930, 242207345, 118513746, 258809911, 120111356, 61111491, 60730644, 141063719,
       52564846, 413006, 102028032, 62456243, 106442105, 166403942, 198342853, 82437797, 42560105, 207515167,
       15943907, 244672076, 199272354, 226243055, 208501467, 70604796, 265270055, 40895285, 59518961, 258274761,
       92171162, 2451686, 232249867, 35703922, 120543607, 214674456, 99837944, 27417379, 235338289, 180648039,
       41863562, 174878520, 91001872, 252058195, 121188328, 208311265, 71473201, 258478650, 217897693, 145194613,
       238067537, 5570593, 177654624, 261705566, 169104214, 64741123, 186290797, 232458616, 26703989, 142194083,
       89594384, 39866783, 117017859, 40487683, 112783234, 100145746, 96739601, 43962754, 189171301, 240429562,
       219615534, 31653586, 157729250, 84303228, 54530777, 189673057, 125181955, 232874507, 102063532, 97562492,
       126339844, 224448198, 176819154, 134056598, 48054404, 19255296, 95612422, 140520543, 186101397, 184085972,
       16043776, 68006513, 94075704, 253605221, 43661287, 18559903, 73570480, 11117267, 111408340, 200585390,
       267554674, 63225958, 150276165, 109150648, 193625491, 61370781, 215380453, 61498111, 268279144, 192615613,
       28350250, 163743978, 76405825, 254316970, 35355651, 157846093, 86634403, 207565623, 208494540, 9944439,
       45446860, 199342582, 71998871, 190534917, 122529116, 164201798, 24546833, 171731199, 36840198, 45625225,
       210354330, 122540727, 131838347, 187460363, 233864554, 215537889, 185188440, 97232900, 55134674, 85016231,
       47921066, 159856175, 49476323, 39823720, 61678864, 205526016, 1937604, 126358750, 173144423, 192751232,
       129546490, 172453953, 265718576, 154248307, 59386686, 176289997, 123004541, 260674592, 211433383, 249949787,
       162229557, 220185080, 40158009, 210499679, 232148947, 165924469, 192453364, 120892984, 37458225, 259378806,
       51121848, 153221153, 110030516, 220541611, 225993788, 102338129, 111865530, 10897265, 114641272, 56423598,
       205185330, 185849208, 223965847, 107929103, 268163214, 32402691, 33886975, 107484580, 190500817, 261474522,
       138143473, 15575363, 101793136, 228292930, 27864722, 83392885, 234469421, 188768553, 224290160, 155274369,
       80574554, 207075691, 58611729, 178494069, 230015442, 241789012, 194541047, 169964275, 151410598, 8139658,
       20049733, 257316842, 149716708, 171369717, 200420685, 242181527, 174967561, 53831024, 99997819, 54483936,
       160915661, 225226997, 116304940, 126089596, 76339714, 1855840, 243905187, 114908636, 235882335, 251060663,
       156457750, 197970945, 87191253, 71768698, 216835699, 100594370, 34545570, 187057458, 260812303, 136935153,
       117973675, 210957919, 135221227, 18636237, 170514619, 149088846, 140276574, 65669902, 100825036, 147347023,
       189939833, 200448832, 131270557, 109632707, 73458963, 155206790, 129610875, 189151266, 57320877, 2659204,
       134402897, 216320877, 43026348, 85180416, 40058259, 133891210, 144203928, 51667617, 237262349, 189305966,
       126142532, 234555573, 242399242, 34527007, 199628197, 167256142, 264926893, 157034257, 22680450, 1779203,
       15919640, 94993245, 23004584, 79541672, 179876183, 171103621, 157018525, 170177158, 38677891, 32669680,
       40579833, 38684708, 182914440, 156368148, 15905854, 130814442, 100830443, 157752225, 174760295, 101484829,
       144624533, 185733769, 106393144, 262297541, 35796229, 109614414, 177959954, 2500637, 117266938, 61464686,
       38662205, 103199562, 196289689, 214041338, 136528721, 142647529, 171588197, 262122655, 143259542, 90656372,
       220607437, 226051688, 202962770, 32226858, 36383089, 232439554, 198392266, 116263663, 133145300, 20615784,
       139858730, 103165245, 18150949, 126000663, 226555878, 221958406, 207208315, 40838545, 33278867, 8859685,
       74509201, 158629145, 171049051, 258528695, 147705474, 109518537, 128565301, 220205946, 68227451, 137634165,
       85202597, 128644514, 143245891, 19569361, 173537703, 2213518, 117166656, 260977219, 220493388, 195915868,
       90509226, 200566741, 112922401, 147954810, 229956862, 140509525, 85866499, 206486668, 261160233, 155949441,
       24400151, 204928318, 235600796, 34504859, 213448559, 160696564, 62510047, 10758104, 154200137, 126438646,
       203572651, 156832918, 54752982, 206529986, 237818505, 129041046, 141572211, 241782948, 65558201, 101633569,
       13559189, 196330181, 164600289, 263358037, 259016977, 77031944, 110888885, 135794924, 257551872, 127805324,
       78585831, 87614203, 204595092, 188794059, 28739997, 129241026, 84299985, 243357995, 124494017, 155240497,
       107001803, 192215808, 124175407, 57394368, 127745422, 179478840, 26985393, 201800493, 126634592, 88797677,
       199191667, 231558030, 210789050, 34458755, 192939308, 149061110, 148980401, 9821807, 112183759, 76669879 >>

\* str(uuid.uuid5(uuid.NAMESPACE_DNS, name)) for a name in 1..6000
Uuid5(name) == Uuid5Digits[name]

\* time.strftime("%Y-%m-%d", time.localtime(ts)): the local calendar day
Strftime(ts, offset) == (ts + offset) \div SecondsPerDay

\* time.mktime(time.strptime(date, "%Y-%m-%d")): local midnight of the day
MktimeStrptime(date, offset) == date * SecondsPerDay - offset

----------------------------------------------------------------------------
(* SteamReviewCrawler.__process_data *)

RequiredAuthorFields == {"steamid", "playtime_at_review"}

RequiredFields == {"author", "timestamp_updated", "review", "comment_count",
                   "votes_up", "votes_funny", "voted_up"}

\* the dict literal of lines 103-116, for a record x that has every field it reads
Canonical(x, id, fr, gn, offset) ==
    [id          |-> id,
     author      |-> Uuid5(StrOf(x.author.steamid)),
     date        |-> Strftime(x.timestamp_updated, offset),
     hours       |-> IntOf(x.author.playtime_at_review),
     content     |-> x.review,
     comments    |-> IntOf(x.comment_count),
     source      |-> "steam",
     helpful     |-> IntOf(x.votes_up),
     funny       |-> IntOf(x.votes_funny),
     recommended |-> x.voted_up,
     franchise   |-> fr,
     gameName    |-> gn]

Subscriptable(x) ==
    /\ RequiredFields \subseteq DOMAIN x
    /\ RequiredAuthorFields \subseteq DOMAIN x.author

ProcessStart ==
    [new_data |-> <<>>, ids |-> {}, review_counter |-> 0, stop |-> FALSE, error |-> "none"]

\* str(x["recommendationid"]): the natural key as line 101 reads it
NaturalKey(x) == StrOf(x.recommendationid)

CapReachedOffByOne(counter) == counter = REVIEW_CAP + 1

\* line 119
CapReached(counter) == counter = REVIEW_CAP

RememberNothing(ids, id) == ids

\* line 117
Remember(ids, id) == ids \cup {id}

EmitLastWins(new_data, fresh, x, id, fr, gn, offset) ==
    IF fresh
    THEN Append(new_data, Canonical(x, id, fr, gn, offset))
    ELSE [j \in 1..Len(new_data) |->
            IF new_data[j].id = id THEN Canonical(x, id, fr, gn, offset) ELSE new_data[j]]

\* lines 102-116: a record whose id is new is appended, any other is skipped
Emit(new_data, fresh, x, id, fr, gn, offset) ==
    IF fresh THEN Append(new_data, Canonical(x, id, fr, gn, offset)) ELSE new_data

ProcessStepSkipsMalformed(st, x, fr, gn, offset) ==
    LET id == IF "recommendationid" \in DOMAIN x THEN Uuid5(NaturalKey(x)) ELSE -1
        fresh == id \notin st.ids
        usable == "recommendationid" \in DOMAIN x /\ Subscriptable(x)
    IN  [new_data |-> IF usable THEN Emit(st.new_data, fresh, x, id, fr, gn, offset)
                                ELSE st.new_data,
         ids |-> IF fresh /\ usable THEN Remember(st.ids, id) ELSE st.ids,
         review_counter |-> st.review_counter + 1,
         stop |-> CapReached(st.review_counter + 1),
         error |-> "none"]

\* one iteration of the for loop of lines 100-121 on the raw record x
ProcessStep(st, x, fr, gn, offset) ==
    IF "recommendationid" \notin DOMAIN x
    THEN [st EXCEPT !.stop = TRUE, !.error = "KeyError"]
    ELSE LET id == Uuid5(NaturalKey(x))
             fresh == id \notin st.ids
         IN  IF fresh /\ ~Subscriptable(x)
             THEN [st EXCEPT !.stop = TRUE, !.error = "KeyError"]
             ELSE [new_data |-> Emit(st.new_data, fresh, x, id, fr, gn, offset),
                   ids |-> IF fresh THEN Remember(st.ids, id) ELSE st.ids,
                   review_counter |-> st.review_counter + 1,
                   stop |-> CapReached(st.review_counter + 1),
                   error |-> "none"]

\* the for loop over old[lo..hi] in list order, leaving at the break or the raise
RECURSIVE ProcessLoop(_, _, _, _, _, _, _)
ProcessLoop(old, st, lo, hi, fr, gn, offset) ==
    IF lo > hi \/ st.stop THEN st
    ELSE IF lo = hi THEN ProcessStep(st, old[lo], fr, gn, offset)
    ELSE LET mid == (lo + hi) \div 2
         IN  ProcessLoop(old, ProcessLoop(old, st, lo, mid, fr, gn, offset),
                         mid + 1, hi, fr, gn, offset)

\* __process_data(old): [new_data, error]
ProcessData(old, fr, gn, offset) ==
    ProcessLoop(old, ProcessStart, 1, Len(old), fr, gn, offset)

----------------------------------------------------------------------------
(* SteamReviewCrawler.sort_reviews *)

SortKeyIdFirst(x, offset) == <<x.id, MktimeStrptime(x.date, offset)>>

\* the key of line 128
SortKey(x, offset) == <<MktimeStrptime(x.date, offset), x.id>>

\* the key of line 128 raises KeyError on an entry of the list
SortRaises(list) == \E i \in 1..Len(list) : ~({"date", "id"} \subseteq DOMAIN list[i])

\* Python's tuple comparison a < b on keys
KeyLess(a, b) == a[1] < b[1] \/ (a[1] = b[1] /\ a[2] < b[2])

\* where a stable sort puts x among the sorted s[lo..hi-1]: after every element
\* whose key is not greater
RECURSIVE InsertionPoint(_, _, _, _, _)
InsertionPoint(s, x, lo, hi, offset) ==
    IF lo >= hi THEN lo
    ELSE LET mid == (lo + hi) \div 2
         IN  IF KeyLess(SortKey(x, offset), SortKey(s[mid], offset))
             THEN InsertionPoint(s, x, lo, mid, offset)
             ELSE InsertionPoint(s, x, mid + 1, hi, offset)

Insert(s, x, offset) ==
    LET p == InsertionPoint(s, x, 1, Len(s) + 1, offset)
    IN  SubSeq(s, 1, p - 1) \o <<x>> \o SubSeq(s, p, Len(s))

RECURSIVE SortLoop(_, _, _, _, _)
SortLoop(list, sorted, lo, hi, offset) ==
    IF lo > hi \/ Len(sorted) = Len(list) THEN sorted   \* nothing left to insert
    ELSE IF lo = hi THEN Insert(sorted, list[lo], offset)
    ELSE LET mid == (lo + hi) \div 2
         IN  SortLoop(list, SortLoop(list, sorted, lo, mid, offset), mid + 1, hi, offset)

\* list.sort(key=...): the stable ascending sort by SortKey
SortReviews(list, offset) == SortLoop(list, <<>>, 1, Len(list), offset)

----------------------------------------------------------------------------
(* ReviewCrawler.filter_reviews *)

\* The timestamp_key functions of the model, named by the field they read:
\* the default of line 67 (entry["timestamp"]), the one __init__ passes at
\* line 91 (entry["timestamp_updated"]), and the local midnight of entry["date"],
\* computed as line 128 computes it.
TimestampKeys == {"timestamp", "timestamp_updated", "date"}

\* timestamp_key(x), for an entry x that has the field
TimestampOf(x, key, offset) ==
    IF key = "date" THEN MktimeStrptime(x.date, offset) ELSE x[key]

\* timestamp_key raises KeyError on an entry of the list
FilterRaises(list, key) == \E i \in 1..Len(list) : key \notin DOMAIN list[i]

\* the list comprehension of line 74
FilterReviews(list, date1, date2, key, offset) ==
    SelectSeq(list, LAMBDA x : /\ date1 <= TimestampOf(x, key, offset)
                               /\ TimestampOf(x, key, offset) <= date2)

----------------------------------------------------------------------------
(* Inputs: raw records, pages, responses, arguments *)

RawRecord(key, steamid, ts, playtime, review, comments, up, funny, voted) ==
    [recommendationid  |-> key,
     author            |-> [steamid |-> steamid, playtime_at_review |-> playtime],
     timestamp_updated |-> ts,
     review            |-> review,
     comment_count     |-> comments,
     votes_up          |-> up,
     votes_funny       |-> funny,
     voted_up          |-> voted]

\* Four reviews: the second repeats the natural key of the first (as a JSON
\* number instead of a string) with other content and another day; the
\* fourth ends the first day and has a fractional playtime and a negative count.
SmallRecords ==
    { RawRecord(JStr(1), JStr(100), 90000, JInt(35), "first",  JInt(0), JInt(3), JInt(0),  TRUE),
      RawRecord(JInt(1), JStr(100), 10,    JInt(40), "edited", JInt(1), JInt(4), JInt(0),  FALSE),
      RawRecord(JStr(2), JStr(101), 90000, JStr(7),  "second", JInt(0), JInt(0), JInt(2),  TRUE),
      RawRecord(JStr(5), JStr(100), 86399, JFloat(25), "third", JInt(2), JInt(1), JInt(-1), FALSE) }

RECURSIVE SeqsUpTo(_, _)
SeqsUpTo(S, n) ==
    IF n = 0 THEN {<<>>}
    ELSE LET shorter == SeqsUpTo(S, n - 1)
         IN  shorter \cup {Append(q, x) : q \in {t \in shorter : Len(t) = n - 1}, x \in S}

SmallPages == SeqsUpTo(SmallRecords, MaxPageLen)

\* Long pages: n reviews with natural keys 1..n in order, except that the
\* `dups` reviews after position `at` repeat the key of position `at`.
BulkShapes ==
    { [n |-> 5001, dups |-> 0,   at |-> 1],
      [n |-> 5001, dups |-> 1,   at |-> 1],
      [n |-> 6000, dups |-> 200, at |-> 1],
      [n |-> 5002, dups |-> 1,   at |-> 5001] }

BulkKey(i, shape) ==
    IF shape.at < i /\ i <= shape.at + shape.dups THEN shape.at ELSE i

BulkPage(shape) ==
    [i \in 1..shape.n |->
        RawRecord(JStr(BulkKey(i, shape)), JStr(100 + (i % 7)), ((i * 7) % 5) * 50000,
                  JInt(i % 50), ToString(i), JInt(0), JInt(i % 3), JInt(0), TRUE)]

BulkPages == {BulkPage(shape) : shape \in BulkShapes}

\* cursors the server may put in a response
ServerCursors == {"*", "A", ""}

JsonResponse(page, c) == [kind |-> "json", status |-> 200, reviews |-> page, cursor |-> c]

\* an application-level error: a status >= 400 whose body is no JSON document
HttpErrorResponse == [kind |-> "http_error", status |-> 500, reviews |-> <<>>, cursor |-> NoKey]

SmallResponses == {JsonResponse(page, c) : page \in SmallPages, c \in ServerCursors \cup {NoKey}}

BulkResponses == {JsonResponse(page, NoKey) : page \in BulkPages}

\* a review that lacks the "review" field
Malformed(key) ==
    [recommendationid  |-> key,
     author            |-> [steamid |-> JStr(100), playtime_at_review |-> JInt(1)],
     timestamp_updated |-> 90000,
     comment_count     |-> JInt(0),
     votes_up          |-> JInt(0),
     votes_funny       |-> JInt(0),
     voted_up          |-> TRUE]

\* Pages with such a review: alone, after a well-formed review of another key,
\* and after a well-formed review of its own key.
MalformedPages ==
    LET first == RawRecord(JStr(1), JStr(100), 90000, JInt(35), "first", JInt(0), JInt(3), JInt(0), TRUE)
    IN  { <<Malformed(JStr(9))>>, <<first, Malformed(JStr(9))>>, <<first, Malformed(JStr(1))>> }

MalformedResponses == {JsonResponse(page, NoKey) : page \in MalformedPages}

\* everything requests.get may return
Responses ==
    SmallResponses \cup BulkResponses \cup MalformedResponses \cup {HttpErrorResponse}

InitialCursors == {NoneValue, "*"}

Completions == {NoCompletion, 0, 2}

DateWindows == {<<0, 0>>, <<86400, 172800>>, <<0, 86400>>}

Franchises == {"Persona", "Portal"}

GameNames == {"Persona 5 Strikers", "Portal 2"}

\* the (franchise, gameName, window) arguments of the constructor calls: one game
\* with every window, and a second game with the default window
SteamArguments ==
    {a \in Franchises \X GameNames \X DateWindows :
        \/ a[1] = "Persona" /\ a[2] = "Persona 5 Strikers"
        \/ a[1] = "Portal" /\ a[2] = "Portal 2" /\ a[3] = <<0, 0>>}

\* UTC offsets of the process's time zone
TimeZones == {0}

----------------------------------------------------------------------------
(* ReviewCrawler.follow_cursor and ReviewCrawler.__make_request *)

CompletionMetStrict(K, d) == K # NoCompletion /\ Len(d) > K

CompletionMetIgnored(K, d) == FALSE

\* the while test of line 51: TRUE when the loop is left
CompletionMet(K, d) == K # NoCompletion /\ Len(d) >= K

\* lines 52-53 with the default cursor_injection: the "cursor" entry of url_encoded
Inject(url, c) == IF Truthy(c) THEN c ELSE url

RetriesExhaustedOneEarly(n) == n >= NUMBER_OF_RETRIES - 1

RetriesExhaustedOneLate(n) == n >= NUMBER_OF_RETRIES + 1

\* line 19: the for loop ends after this many failed attempts
RetriesExhausted(n) == n >= NUMBER_OF_RETRIES

AppendPageNewestFirst(d, r) == r.reviews \o d

\* lines 56-57
AppendPage(d, r) == d \o r.reviews

CursorOutcomeAdoptsMissing(held, r) ==
    IF r.cursor = held THEN "break" ELSE "continue"

CursorOutcomeNoProgressCheck(held, r) ==
    IF r.cursor = NoKey THEN "break" ELSE "continue"

\* lines 58-64: "break" or "continue"
CursorOutcome(held, r) ==
    IF r.cursor = NoKey THEN "break"
    ELSE IF r.cursor = held THEN "break"
    ELSE "continue"

PcValues == {"idle", "loop", "request", "sleeping", "returned", "constructed", "raised",
             "held"}

Init ==
    /\ pc = "idle"
    /\ caller = "none"
    /\ data = <<>>
    /\ cursor = NoneValue
    /\ url_encoded = NoKey
    /\ completion = NoCompletion
    /\ attempts = 0
    /\ failures = 0
    /\ requests = 0
    /\ response = NoResponse
    /\ error = "none"
    /\ franchise = ""
    /\ gameName = ""
    /\ start_date = 0
    /\ end_date = 0
    /\ tz \in TimeZones
    /\ old_data = <<>>
    /\ file = NoFile
    /\ explicit = TRUE
    /\ default_url_encoded = NoKey

GetFranchiseReturnsGameName == gameName

\* the franchise property, lines 132-134
GetFranchise == franchise

\* the gameName property, lines 136-138
GetGameName == gameName

\* SteamReviewCrawler(appID, fr, gn, start_date=s, end_date=e): lines 82-89 up to
\* the entry of follow_cursor (line 50)
NewSteamReviewCrawler(fr, gn, s, e) ==
    /\ pc = "idle"
    /\ pc' = "loop"
    /\ caller' = "steam"
    /\ franchise' = fr
    /\ gameName' = gn
    /\ start_date' = s
    /\ end_date' = e
    /\ data' = <<>>
    /\ cursor' = "*"
    /\ url_encoded' = NoKey
    /\ completion' = NoCompletion
    /\ explicit' = TRUE
    /\ UNCHANGED <<attempts, failures, requests, response, error, tz, old_data, file,
                   default_url_encoded>>

\* The dict bound to the parameter url_encoded at line 29: the caller's own
\* empty dict, or the one default dict in the state earlier calls left it in.
BoundUrlEncoded(own) == IF own THEN NoKey ELSE default_url_encoded

\* ReviewCrawler().follow_cursor(endpoint, cursor=c, completion_condition=K), with
\* url_encoded={} when own and with the default otherwise: line 50
CallFollowCursor(c, K, own) ==
    /\ pc = "idle"
    /\ pc' = "loop"
    /\ caller' = "generic"
    /\ data' = <<>>
    /\ cursor' = c
    /\ explicit' = own
    /\ url_encoded' = BoundUrlEncoded(own)
    /\ completion' = K
    /\ UNCHANGED <<attempts, failures, requests, response, error, franchise, gameName,
                   start_date, end_date, tz, old_data, file, default_url_encoded>>

\* a call made directly on a crawler has ended
CallEnded == pc \in {"returned", "raised", "held"}

\* The caller holds a crawler and no call is under way: a ReviewCrawler after
\* its first follow_cursor call, a SteamReviewCrawler only when __init__
\* returned (an exception leaving __init__ leaves no object behind).
ObjectHeld ==
    \/ pc = "constructed"
    \/ caller \in {"generic", "steam_direct"} /\ CallEnded

\* The object's owner after a direct call of follow_cursor or filter_reviews
DirectCaller == IF caller = "steam" THEN "steam_direct" ELSE caller

\* The locals of the calls that have ended no longer exist: those of
\* follow_cursor (lines 26-35) and its counters ...
FrameDiscarded ==
    /\ cursor' = NoneValue
    /\ url_encoded' = NoKey
    /\ explicit' = TRUE
    /\ completion' = NoCompletion
    /\ attempts' = 0
    /\ failures' = 0
    /\ requests' = 0
    /\ response' = NoResponse

\* ... and those of __init__ (line 81), with the list it handed to
\* __process_data, which describe the harvest and not the collection a direct
\* call leaves.
HarvestDiscarded ==
    /\ start_date' = 0
    /\ end_date' = 0
    /\ old_data' = <<>>

\* A further follow_cursor call, on the crawler the caller holds or on another
\* ReviewCrawler: line 50.  The counters and the last response describe the
\* current call; a file written earlier stays as it is.
CallFollowCursorAgain(c, K, own) ==
    /\ ObjectHeld
    /\ pc' = "loop"
    /\ caller' = DirectCaller
    /\ data' = <<>>
    /\ cursor' = c
    /\ explicit' = own
    /\ url_encoded' = BoundUrlEncoded(own)
    /\ completion' = K
    /\ attempts' = 0
    /\ failures' = 0
    /\ requests' = 0
    /\ response' = NoResponse
    /\ error' = "none"
    /\ HarvestDiscarded
    /\ UNCHANGED <<franchise, gameName, tz, file, default_url_encoded>>

\* line 51 true at the while test, then line 65
LeaveLoop ==
    /\ pc = "loop"
    /\ CompletionMet(completion, data)
    /\ pc' = "returned"
    /\ UNCHANGED <<caller, data, cursor, url_encoded, completion, attempts, failures, requests,
                   response, error, franchise, gameName, start_date, end_date, tz,
                   old_data, file>>
    /\ UNCHANGED <<explicit, default_url_encoded>>

\* line 51 false at the while test, lines 52-53, and the entry of __make_request
IssueRequest ==
    /\ pc = "loop"
    /\ ~CompletionMet(completion, data)
    /\ requests < MaxRequests
    /\ pc' = "request"
    /\ url_encoded' = Inject(url_encoded, cursor)
    /\ default_url_encoded' = IF explicit THEN default_url_encoded ELSE url_encoded'
    /\ requests' = requests + 1
    /\ attempts' = 0
    /\ failures' = 0
    /\ UNCHANGED <<caller, data, cursor, completion, response, error, franchise,
                   gameName, start_date, end_date, tz, old_data, file, explicit>>

\* lines 21-23: requests.get raises and the except clause calls time.sleep
TransportFails ==
    /\ pc = "request"
    /\ pc' = "sleeping"
    /\ attempts' = attempts + 1
    /\ failures' = failures + 1
    /\ UNCHANGED <<caller, data, cursor, url_encoded, completion, requests, response,
                   error, franchise, gameName, start_date, end_date, tz, old_data, file>>
    /\ UNCHANGED <<explicit, default_url_encoded>>

\* time.sleep(self.RETRY_DELAY) of line 23 returns: the for loop of line 19
\* makes its next attempt, or has ended and line 24 raises ConnectionError
RetryDelayElapses ==
    /\ pc = "sleeping"
    /\ IF RetriesExhausted(attempts)
       THEN pc' = "raised" /\ error' = "ConnectionError"
       ELSE pc' = "request" /\ error' = error
    /\ UNCHANGED <<caller, data, cursor, url_encoded, completion, attempts, failures,
                   requests, response, franchise, gameName, start_date, end_date, tz,
                   old_data, file>>
    /\ UNCHANGED <<explicit, default_url_encoded>>

\* line 21 returns r, then lines 55-64 of follow_cursor (and line 65 at a break).
\* The accumulated reviews stay within MaxData, except that a long page may
\* answer the first attempt of the first request.
TransportResponds(r) ==
    /\ pc = "request"
    /\ \/ Len(data) + Len(r.reviews) <= MaxData
       \/ requests = 1 /\ attempts = 0 /\ r \in BulkResponses
    /\ attempts' = attempts + 1
    /\ failures' = failures
    /\ response' = r
    /\ IF r.kind = "http_error"
       THEN /\ pc' = "raised"
            /\ error' = "JSONDecodeError"
            /\ UNCHANGED <<data, cursor>>
       ELSE /\ data' = AppendPage(data, r)
            /\ error' = error
            /\ IF CursorOutcome(cursor, r) = "break"
               THEN pc' = "returned" /\ cursor' = cursor
               ELSE pc' = "loop" /\ cursor' = r.cursor
    /\ UNCHANGED <<caller, url_encoded, completion, requests, franchise, gameName,
                   start_date, end_date, tz, old_data, file>>
    /\ UNCHANGED <<explicit, default_url_encoded>>

----------------------------------------------------------------------------
(* SteamReviewCrawler.__init__ after follow_cursor, and the public methods *)

\* line 90
WindowGiven(s, e) == s # 0 /\ e # 0

\* lines 90-91
Filtered(list, s, e, offset) ==
    IF WindowGiven(s, e) THEN FilterReviews(list, s, e, "timestamp_updated", offset) ELSE list

\* lines 90-93
FinishInit ==
    /\ pc = "returned"
    /\ caller = "steam"
    /\ old_data' = Filtered(data, start_date, end_date, tz)
    /\ \E res \in {ProcessData(old_data', GetFranchise, GetGameName, tz)} :
          IF res.error # "none"
          THEN /\ pc' = "raised"
               /\ error' = res.error
               /\ data' = old_data'
          ELSE /\ pc' = "constructed"
               /\ error' = error
               /\ data' = SortReviews(res.new_data, tz)
    /\ UNCHANGED <<caller, cursor, url_encoded, completion, attempts, failures, requests, response,
                   franchise, gameName, start_date, end_date, tz, file>>
    /\ UNCHANGED <<explicit, default_url_encoded>>

\* crawler.sort_reviews() on a SteamReviewCrawler the caller holds: line 128.
\* A key that raises leaves the list as it was.
CallSortReviews ==
    /\ \/ pc = "constructed"
       \/ caller = "steam_direct" /\ CallEnded
    /\ IF SortRaises(data)
       THEN /\ pc' = "raised"
            /\ error' = "KeyError"
            /\ data' = data
       ELSE /\ pc' = IF pc = "constructed" THEN pc ELSE "held"
            /\ error' = "none"
            /\ data' = SortReviews(data, tz)
    /\ IF pc = "constructed"
       THEN UNCHANGED <<cursor, url_encoded, explicit, completion, attempts, failures,
                        requests, response>>
       ELSE FrameDiscarded
    /\ UNCHANGED <<caller, franchise, gameName, start_date, end_date, tz, old_data, file,
                   default_url_encoded>>

\* crawler.filter_reviews(date1, date2, timestamp_key=key) on a crawler the
\* caller holds: line 74.  A key that raises leaves self.data as it was; a
\* file written earlier stays as it is.
CallFilterReviews(date1, date2, key) ==
    /\ ObjectHeld
    /\ caller' = DirectCaller
    /\ IF FilterRaises(data, key)
       THEN /\ pc' = "raised"
            /\ error' = "KeyError"
            /\ data' = data
       ELSE /\ pc' = "held"
            /\ error' = "none"
            /\ data' = FilterReviews(data, date1, date2, key, tz)
    /\ FrameDiscarded
    /\ HarvestDiscarded
    /\ UNCHANGED <<franchise, gameName, tz, file, default_url_encoded>>

\* crawler.dump_json_out(filename) on an object the caller holds
DumpJsonOut ==
    /\ ObjectHeld
    /\ file' = [written |-> TRUE, content |-> data]
    /\ UNCHANGED <<pc, caller, data, cursor, url_encoded, completion, attempts, failures, requests,
                   response, error, franchise, gameName, start_date, end_date, tz,
                   old_data>>
    /\ UNCHANGED <<explicit, default_url_encoded>>

\* A first call finds the default dict as empty as a dict of its own, so it is
\* made with the default; calls with a dict of their own are among the further calls.
Next ==
    \/ \E a \in SteamArguments : NewSteamReviewCrawler(a[1], a[2], a[3][1], a[3][2])
    \/ \E c \in InitialCursors, K \in Completions : CallFollowCursor(c, K, FALSE)
    \/ LeaveLoop
    \/ IssueRequest
    \/ TransportFails
    \/ RetryDelayElapses
    \/ \E r \in Responses : TransportResponds(r)
    \/ FinishInit
    \/ CallSortReviews
    \/ DumpJsonOut

Spec == Init /\ [][Next]_vars

\* the (date1, date2) arguments of the direct filter_reviews calls
FilterWindows == {<<0, 86399>>, <<86400, 172800>>}

\* The runs with direct calls keep every file written next to every later
\* call, so they draw their inputs from smaller sets: two reviews, of the
\* first and of the second day, ...
RepeatedRecords == {x \in SmallRecords : x.review \in {"first", "third"}}

RepeatedPages == SeqsUpTo(RepeatedRecords, MaxPageLen)

\* ... responses with every cursor or with none, a page with a malformed
\* review and the application-level error, ...
RepeatedResponses ==
    {JsonResponse(page, c) : page \in RepeatedPages, c \in ServerCursors \cup {NoKey}}
        \cup {JsonResponse(<<Malformed(JStr(9))>>, NoKey), HttpErrorResponse}

\* ... and one game, with the default window and with a window of one day.
RepeatedArguments ==
    {a \in SteamArguments : a[1] = "Persona" /\ a[3] \in {<<0, 0>>, <<86400, 172800>>}}

\* the program with any number of direct calls one after the other
NextRepeated ==
    \/ \E a \in RepeatedArguments : NewSteamReviewCrawler(a[1], a[2], a[3][1], a[3][2])
    \/ \E c \in InitialCursors, K \in Completions : CallFollowCursor(c, K, FALSE)
    \/ LeaveLoop
    \/ IssueRequest
    \/ TransportFails
    \/ RetryDelayElapses
    \/ \E r \in RepeatedResponses : TransportResponds(r)
    \/ FinishInit
    \/ CallSortReviews
    \/ DumpJsonOut
    \/ \E c \in InitialCursors, K \in Completions, own \in BOOLEAN :
          CallFollowCursorAgain(c, K, own)
    \/ \E w \in FilterWindows, key \in TimestampKeys : CallFilterReviews(w[1], w[2], key)

SpecRepeated == Init /\ [][NextRepeated]_vars

\* Calls of any length.  Line 51 false at the while test, lines 52-53 and the
\* entry of __make_request, with `requests` counting up to MaxRequests and
\* standing for "MaxRequests or more" from there on.
IssueRequestUncounted ==
    /\ pc = "loop"
    /\ ~CompletionMet(completion, data)
    /\ pc' = "request"
    /\ url_encoded' = Inject(url_encoded, cursor)
    /\ default_url_encoded' = IF explicit THEN default_url_encoded ELSE url_encoded'
    /\ requests' = IF requests < MaxRequests THEN requests + 1 ELSE requests
    /\ attempts' = 0
    /\ failures' = 0
    /\ UNCHANGED <<caller, data, cursor, completion, response, error, franchise,
                   gameName, start_date, end_date, tz, old_data, file, explicit>>

\* the responses of a server whose pages are empty or hold one review
EndlessResponses ==
    {JsonResponse(page, c) :
        page \in {<<>>, <<RawRecord(JStr(1), JStr(100), 90000, JInt(35), "first",
                                    JInt(0), JInt(3), JInt(0), TRUE)>>},
        c \in ServerCursors \cup {NoKey}}

\* every attempt of __make_request ends: requests.get returns or raises
AttemptEnds == TransportFails \/ \E r \in EndlessResponses : TransportResponds(r)

NextEndless ==
    \/ \E c \in InitialCursors, K \in Completions : CallFollowCursor(c, K, FALSE)
    \/ LeaveLoop
    \/ IssueRequestUncounted
    \/ AttemptEnds
    \/ RetryDelayElapses

\* follow_cursor is sequential code that runs on once called, its requests
\* are answered or fail, and time.sleep returns
SpecEndless ==
    /\ Init
    /\ [][NextEndless]_vars
    /\ WF_vars(LeaveLoop)
    /\ WF_vars(IssueRequestUncounted)
    /\ WF_vars(AttemptEnds)
    /\ WF_vars(RetryDelayElapses)

----------------------------------------------------------------------------
(* Properties *)

Harvested == pc = "constructed"

DataIds == {data[j].id : j \in 1..Len(data)}

\* C1: whatever raw records were handed to __process_data, the output
\* collection of a finished harvest has at most 5000 entries.
OutputAtMostCap == Harvested => Len(data) <= 5000

\* C1 witness: more than 5000 raw records were normalized and the output is full.
OutputAtMostCapWitness ==
    Harvested /\ Len(old_data) > 5000 /\ Len(data) = 5000

\* C2: no two entries of the output collection of a finished harvest share an id.
UniqueIds == Harvested => Cardinality(DataIds) = Len(data)

\* C2 witness: a natural key arrived twice, once on the first page and once on
\* the second, and the harvest emitted records.
UniqueIdsWitness ==
    /\ Harvested
    /\ requests = 2
    /\ Len(old_data) = Len(data) + 1
    /\ Len(response.reviews) >= 1
    /\ \E i \in 1..(Len(old_data) - Len(response.reviews)) :
          \E j \in (Len(old_data) - Len(response.reviews) + 1)..Len(old_data) :
              NaturalKey(old_data[i]) = NaturalKey(old_data[j])
\* the natural keys of old[lo..hi], and those among them that occur more than once
RECURSIVE KeyCensus(_, _, _)
KeyCensus(old, lo, hi) ==
    IF lo > hi THEN [seen |-> {}, repeated |-> {}]
    ELSE IF lo = hi THEN [seen |-> {NaturalKey(old[lo])}, repeated |-> {}]
    ELSE LET mid == (lo + hi) \div 2
             l == KeyCensus(old, lo, mid)
             r == KeyCensus(old, mid + 1, hi)
         IN  [seen |-> l.seen \cup r.seen,
              repeated |-> l.repeated \cup r.repeated \cup (l.seen \cap r.seen)]

OccurrencesOf(old, k) == {i \in 1..Len(old) : NaturalKey(old[i]) = k}

FirstIndex(old, k) ==
    CHOOSE i \in 1..Len(old) :
        /\ NaturalKey(old[i]) = k
        /\ \A i2 \in 1..(i - 1) : NaturalKey(old[i2]) # k

\* the text of a raw review, NoKey when it has none
ReviewOf(x) == IF "review" \in DOMAIN x THEN x.review ELSE NoKey

\* natural keys carried by two or more raw records of different content
ContestedKeys(old) ==
    {k \in KeyCensus(old, 1, Len(old)).repeated :
        Cardinality({ReviewOf(old[i]) : i \in OccurrencesOf(old, k)}) >= 2}

RecordsFor(k) == {j \in 1..Len(data) : data[j].id = Uuid5(k)}

FirstOccurrenceRecord(k) ==
    Canonical(old_data[FirstIndex(old_data, k)], Uuid5(k), franchise, gameName, tz)

\* C3 (as claimed): the cap counts emitted records, so whenever the raw input
\* holds at least 5000 distinct natural keys the output has exactly 5000 records.
CapCountsEmittedRecords ==
    Harvested =>
        (Cardinality({NaturalKey(old_data[i]) : i \in 1..Len(old_data)}) >= 5000
            => Len(data) = 5000)

\* C4 (as claimed): every natural key carried by two or more raw records of
\* different content has exactly one canonical record, with the fields of the
\* first occurrence.
FirstOccurrenceAlwaysEmitted ==
    Harvested =>
        \A k \in ContestedKeys(old_data) :
            /\ Cardinality(RecordsFor(k)) = 1
            /\ \A j \in RecordsFor(k) : data[j] = FirstOccurrenceRecord(k)

\* C4 (amended): every such key has at most one canonical record, which has the
\* fields of the first occurrence, and has exactly one whenever its first
\* occurrence is among the first 5000 raw records.
FirstOccurrenceWins ==
    Harvested =>
        \A k \in ContestedKeys(old_data) :
            /\ Cardinality(RecordsFor(k)) <= 1
            /\ FirstIndex(old_data, k) <= 5000 => Cardinality(RecordsFor(k)) = 1
            /\ \A j \in RecordsFor(k) : data[j] = FirstOccurrenceRecord(k)

\* C4 witness: two raw records with one natural key, the edited review first;
\* the single canonical record carries the edited review.
FirstOccurrenceWinsWitness ==
    /\ Harvested
    /\ Len(old_data) = 2
    /\ ReviewOf(old_data[1]) = "edited"
    /\ ReviewOf(old_data[2]) = "first"
    /\ ContestedKeys(old_data) # {}
    /\ Len(data) = 1
    /\ data[1].content = "edited"
\* a step in which __make_request hands a JSON response to follow_cursor
ResponseStep == pc = "request" /\ failures' = failures /\ response'.kind = "json"

\* follow_cursor has returned and nothing calls __make_request any more
NoFurtherRequest ==
    pc \in {"returned", "constructed"} => requests' = requests /\ pc' \notin {"loop", "request"}

\* C5: when the response holds no cursor, follow_cursor returns normally with
\* everything accumulated so far followed by the records of that page, and
\* issues no further request.
CursorAbsentTerminates ==
    [][/\ (ResponseStep /\ response'.cursor = NoKey) =>
            /\ pc' = "returned"
            /\ error' = "none"
            /\ data' = data \o response'.reviews
            /\ requests' = requests
       /\ NoFurtherRequest]_vars

\* C5 witness: the second page came without a cursor and follow_cursor returned
\* the records of both pages.
CursorAbsentTerminatesWitness ==
    /\ pc = "returned"
    /\ requests = 2
    /\ response.kind = "json"
    /\ response.cursor = NoKey
    /\ response.reviews # <<>>
    /\ Len(data) > Len(response.reviews)
    /\ SubSeq(data, Len(data) - Len(response.reviews) + 1, Len(data)) = response.reviews

\* C6: when the cursor of the response equals the cursor held for that request,
\* follow_cursor returns normally with the records of that page appended, and
\* issues no further request.
NoProgressTerminates ==
    [][/\ (ResponseStep /\ response'.cursor # NoKey /\ response'.cursor = cursor) =>
            /\ pc' = "returned"
            /\ error' = "none"
            /\ data' = data \o response'.reviews
            /\ requests' = requests
       /\ NoFurtherRequest]_vars

\* C6 witness: the second response repeated the cursor adopted from the first,
\* and follow_cursor returned the records of both pages.
NoProgressTerminatesWitness ==
    /\ pc = "returned"
    /\ requests = 2
    /\ response.kind = "json"
    /\ response.cursor = "A"
    /\ cursor = "A"
    /\ response.reviews # <<>>
    /\ Len(data) > Len(response.reviews)

\* C7: while fewer than 5 attempts have failed the executor waits after a
\* failure and tries again without surfacing an error, and an attempt that is
\* answered after k failures ends the call after exactly k + 1 attempts with
\* that response and no ConnectionError.
RetryThenSuccess ==
    [][/\ (pc = "request") =>
            /\ failures < 5 /\ attempts = failures
            /\ failures' = failures + 1 =>
                  (pc' = "sleeping" /\ attempts' = attempts + 1 /\ error' = "none")
            /\ failures' = failures =>
                  /\ attempts' = failures + 1
                  /\ pc' \notin {"request", "sleeping"}
                  /\ response'.kind \in {"json", "http_error"}
                  /\ error' # "ConnectionError"
       /\ (pc = "sleeping" /\ failures < 5) =>
            /\ pc' \in {"sleeping", "request"}
            /\ attempts' = attempts /\ failures' = failures
            /\ error' = "none"]_vars

\* C7 witness: four attempts failed, the fifth was answered, and follow_cursor
\* went on with that response.
RetryThenSuccessWitness ==
    /\ failures = 4
    /\ attempts = 5
    /\ pc = "returned"
    /\ error = "none"
    /\ response.kind = "json"

\* C8: ConnectionError is raised exactly when 5 attempts have failed, after
\* exactly 5 attempts: once the fifth has failed the executor only waits and
\* then raises, without a sixth attempt and without a response.
ExhaustedRaises ==
    /\ [](/\ attempts <= 5
          /\ failures >= 5 =>
                \/ pc = "sleeping" /\ error = "none"
                \/ pc = "raised" /\ error = "ConnectionError"
          /\ error = "ConnectionError" => (failures = 5 /\ attempts = 5 /\ pc = "raised"))
    /\ [][(pc = "sleeping" /\ failures >= 5) =>
             /\ pc' \in {"sleeping", "raised"}
             /\ pc' = "raised" => error' = "ConnectionError"
             /\ attempts' = attempts
             /\ response' = response
             /\ data' = data]_vars

\* C8 witness: every attempt of the second request failed.
ExhaustedRaisesWitness ==
    error = "ConnectionError" /\ requests = 2 /\ attempts = 5

\* C9: a completion predicate that holds on the empty accumulator means that
\* no request is issued and the empty sequence is returned.
SatisfiedAtStart ==
    (pc # "idle" /\ completion # NoCompletion /\ completion <= 0) =>
        /\ requests = 0
        /\ attempts = 0
        /\ data = <<>>
        /\ pc \in {"loop", "returned"}
        /\ ~ENABLED IssueRequest

\* C9 witness: follow_cursor returned without a request.
SatisfiedAtStartWitness ==
    pc = "returned" /\ completion = 0 /\ requests = 0 /\ data = <<>>

\* C10: the collection of a finished harvest is sorted ascending by (date, id),
\* and sort_reviews (like every step that leaves the harvest in place) leaves
\* it as it is.
SortedAndIdempotent ==
    /\ [](Harvested =>
            \A i \in 1..(Len(data) - 1) :
                \/ data[i].date < data[i + 1].date
                \/ data[i].date = data[i + 1].date /\ data[i].id <= data[i + 1].id)
    /\ [][(Harvested /\ Harvested') => data' = data]_vars

\* C10 witness: three records were emitted and the first raw record ended last.
SortedAndIdempotentWitness ==
    /\ Harvested
    /\ Len(data) = 3
    /\ data[3].id = Uuid5(NaturalKey(old_data[1]))
    /\ data[1].date < data[2].date
    /\ data[2].date = data[3].date

\* the window test of filter_reviews, line 73, on one raw record
InWindow(x) == start_date <= x.timestamp_updated /\ x.timestamp_updated <= end_date

\* C11: when a window other than the defaults (0, 0) is supplied, the records
\* handed to normalization are exactly the fetched records whose
\* timestamp_updated lies in [start_date, end_date], in their order, and every
\* output record derives from one of them.
WindowFilters ==
    [][(pc = "returned" /\ pc' = "constructed" /\ <<start_date, end_date>> # <<0, 0>>) =>
          /\ old_data' = SelectSeq(data, InWindow)
          /\ \A i \in 1..Len(old_data') : InWindow(old_data'[i])
          /\ {data'[j].id : j \in 1..Len(data')} \subseteq
                 {Uuid5(NaturalKey(old_data'[i])) : i \in 1..Len(old_data')}]_vars

\* C12: every record of a finished harvest carries the franchise and gameName
\* captured at construction and the source "steam", the captured pair is one
\* that was supplied, and neither accessor changes its answer after construction.
UniformProvenance ==
    /\ [](Harvested =>
            /\ \A j \in 1..Len(data) :
                  /\ data[j].franchise = GetFranchise
                  /\ data[j].gameName = GetGameName
                  /\ data[j].source = "steam"
            /\ \E a \in SteamArguments : GetFranchise = a[1] /\ GetGameName = a[2])
    /\ [][(pc # "idle" /\ caller \in {"steam", "steam_direct"}) =>
             GetFranchise' = GetFranchise /\ GetGameName' = GetGameName]_vars

\* C12 witness: a harvest of the second game finished with two records or more
\* and its collection was sorted again and written.
UniformProvenanceWitness ==
    /\ Harvested
    /\ franchise = "Portal"
    /\ gameName = "Portal 2"
    /\ Len(data) >= 2
    /\ file.written
    /\ file.content = data

\* the natural keys of the records __process_data reads before its cap
KeysRead(old) ==
    {NaturalKey(old[i]) : i \in 1..(IF Len(old) < REVIEW_CAP THEN Len(old) ELSE REVIEW_CAP)}

\* C13: a harvest that met a fatal error ends in an explicit failure: it holds
\* no object, nothing was written and nothing can be written.  A harvest that
\* finished met no error and has one record for every natural key it read, and
\* a file written by a harvest is that collection.
FatalErrorAborts ==
    /\ (error # "none" => pc = "raised")
    /\ (caller = "steam" /\ pc = "raised" =>
            /\ error # "none"
            /\ ~file.written
            /\ ~ENABLED DumpJsonOut
            /\ ~ENABLED CallSortReviews)
    /\ (Harvested =>
            /\ error = "none"
            /\ \A i \in 1..Len(old_data) : "recommendationid" \in DOMAIN old_data[i]
            /\ Len(data) = Cardinality(KeysRead(old_data)))
    /\ (caller = "steam" /\ file.written => Harvested /\ file.content = data)

\* C13 witness: normalization met a review without its "review" field after a
\* well-formed one, and the harvest failed.
FatalErrorAbortsWitness ==
    /\ caller = "steam"
    /\ pc = "raised"
    /\ error = "KeyError"
    /\ Len(old_data) = 2
    /\ Subscriptable(old_data[1])
    /\ ~Subscriptable(old_data[2])
    /\ ~file.written

\* C14: the hours, comments, helpful and funny fields of every record of a
\* finished harvest are non-negative integers.
NonNegativeCounts ==
    Harvested =>
        \A j \in 1..Len(data) :
            /\ data[j].hours \in Nat
            /\ data[j].comments \in Nat
            /\ data[j].helpful \in Nat
            /\ data[j].funny \in Nat

\* C15: a follow_cursor call starts with an empty accumulator, and its first
\* request carries its own initial cursor when that is non-empty and no cursor
\* otherwise, whatever calls came before it and whether or not it was given its
\* own url_encoded dict.
NoSharedState ==
    /\ (pc = "loop" /\ requests = 0 => data = <<>>)
    /\ (pc = "request" /\ requests = 1 =>
            url_encoded = IF Truthy(cursor) THEN cursor ELSE NoKey)

\* t is a local midnight
MidnightAligned(t) == MktimeStrptime(Strftime(t, tz), tz) = t

\* C16: when a window other than the defaults (0, 0) is supplied and both of
\* its bounds are local midnights, the local midnight of the date of every
\* record of a finished harvest lies in [start_date, end_date].
DateWithinAlignedWindow ==
    (/\ Harvested
     /\ <<start_date, end_date>> # <<0, 0>>
     /\ MidnightAligned(start_date)
     /\ MidnightAligned(end_date)) =>
        \A j \in 1..Len(data) :
            /\ start_date <= MktimeStrptime(data[j].date, tz)
            /\ MktimeStrptime(data[j].date, tz) <= end_date

\* C17: follow_cursor starts from the empty sequence, every JSON response it
\* receives appends exactly that page's records in the page's order, and no
\* other step of the call touches the accumulator: what it returns is the
\* concatenation of the pages in request order, ending with the last page.
PagesConcatenated ==
    /\ [](pc = "loop" /\ requests = 0 => data = <<>>)
    /\ [][(pc \in {"loop", "request", "sleeping"}) =>
             (IF ResponseStep THEN data' = data \o response'.reviews ELSE data' = data)]_vars
    /\ [](pc \in {"loop", "returned"} /\ requests >= 1 =>
             /\ Len(data) >= Len(response.reviews)
             /\ SubSeq(data, Len(data) - Len(response.reviews) + 1, Len(data)) = response.reviews)

\* C17 witness: a call returned three records from two pages, and the one
\* record of the second page has the natural key of the first record of the
\* first page.
PagesConcatenatedWitness ==
    /\ caller = "generic"
    /\ pc = "returned"
    /\ requests = 2
    /\ Len(data) = 3
    /\ Len(response.reviews) = 1
    /\ NaturalKey(data[1]) # NaturalKey(data[2])
    /\ NaturalKey(data[3]) = NaturalKey(data[1])

\* C18: every request after the first carries, as its cursor parameter, the
\* cursor of the response before it, whatever value that is; the first request
\* carries the initial cursor when that is non-empty and no cursor otherwise.
CursorCarried ==
    /\ (pc = "request" /\ requests >= 2 => url_encoded = response.cursor)
    /\ (pc = "request" /\ requests = 1 /\ Truthy(cursor) => url_encoded = cursor)
    /\ (pc = "request" /\ requests = 1 /\ ~Truthy(cursor) => url_encoded = NoKey)

\* The latest response gave back the cursor its request carried, or the
\* completion condition holds on the accumulator.  (A response without a
\* cursor has ended the call by the time it is seen.)
TerminationSignal ==
    \/ pc = "loop" /\ requests >= 1 /\ response.cursor = url_encoded
    \/ pc \in {"loop", "request"} /\ CompletionMet(completion, data)

\* C19: when every attempt ends, a follow_cursor call whose latest response gave
\* back the cursor just sent, or whose completion condition has become true,
\* ends.
EventuallyTerminates == TerminationSignal ~> (pc \in {"returned", "raised"})

\* C20: with the completion condition len(data) >= K, a request is under way
\* only while the accumulator holds fewer than K records, so the accumulator
\* held fewer than K records before the latest page was appended: a call
\* returns fewer than K + P records when no page has more than P.
CompletionBeforeRequest ==
    /\ (completion # NoCompletion /\ pc \in {"request", "sleeping"} => Len(data) < completion)
    /\ (completion # NoCompletion /\ pc \in {"loop", "returned"} /\ requests >= 1 =>
            /\ Len(data) - Len(response.reviews) < completion
            /\ (Len(response.reviews) <= MaxPageLen => Len(data) < completion + MaxPageLen))
    /\ (completion # NoCompletion /\ pc \in {"loop", "returned"} /\ requests = 0 =>
            data = <<>>)

\* C20 witness: with K = 2, a page of one record and then a page of two were
\* fetched, the second response brought a new cursor, and the call returned
\* three records because the condition held.
CompletionBeforeRequestWitness ==
    /\ pc = "returned"
    /\ completion = 2
    /\ requests = 2
    /\ Len(data) = 3
    /\ Len(response.reviews) = 2
    /\ url_encoded = "A"
    /\ response.cursor = ""

====
